---- MODULE Spec2Model ----
(***************************************************************************)
(* A model of the StockOfIndia ingestion and analytics pipeline:           *)
(*   - the Article Store and the Market Bar Store with their upserts       *)
(*     (database_manager.py, market_data_collector.py),                    *)
(*   - the enrichment passes (nlp_processor.py),                           *)
(*   - the insight generation run and its write-back                       *)
(*     (insights_generator.py) and the dashboard reader (app.py).          *)
(*   - the watermark look-ups and the fetch windows the fetchers plan      *)
(*     (database_manager.py, market_data_collector.py).                    *)
(*                                                                         *)
(* Python values are encoded as follows.  A string-typed field that is     *)
(* None holds the string "None"; a sentiment score is an integer number of *)
(* hundredths and None is NoScore; a date is a record [t, day] whose t     *)
(* tells the Python type ("datetime", a 'YYYY-MM-DD' "str", a "raw" string *)
(* in some other format, or "none") and whose day is the calendar day.     *)
(***************************************************************************)
EXTENDS Integers, Sequences, FiniteSets, TLC

VARIABLES
    articles,       \* the news_articles collection: a set of documents
    bars,           \* the historical_market_data collection: a set of documents
    insights,       \* the insights collection: a set of documents
    last,           \* what the last completed store operation did
    wpc,            \* per concurrent writer: position inside update_one(upsert=True)
    wreq,           \* per concurrent writer: the request it is executing
    wret,           \* per concurrent writer: what its call returned / did
    gpc,            \* position of generate_and_store_insights
    grun,           \* the locals of the current generate_and_store_insights run
    observed,       \* what the dashboard reader last read from the insights collection
    today,          \* the current calendar day, datetime.now().date()
    fetch,          \* what the last run of a fetcher planned, sent and wrote
    sig,            \* the rows handed to generate_signal and the labels it returned
    pipe,           \* the pipeline run of database_manager's main block
    http            \* the frame of the running get_html_content call

vars == <<articles, bars, insights, last, wpc, wreq, wret, gpc, grun, observed,
          today, fetch, sig, pipe, http>>

-----------------------------------------------------------------------------
(* Values *)

None == "None"
NoScore == -1
NoDate == [t |-> "none", day |-> 0]

PLACEHOLDER == "Failed to scrape full content from article page"

DateTime(n) == [t |-> "datetime", day |-> n]
DateStr(n) == [t |-> "str", day |-> n]
DateRaw(n) == [t |-> "raw", day |-> n]

\* datetime.strptime(s, '%Y-%m-%d') inside insert_article_into_mongodb: a
\* 'YYYY-MM-DD' string becomes a datetime, any other string raises ValueError
\* and is stored as it is.
ParseIsoDate(s) == IF s.t = "str" THEN DateTime(s.day) ELSE s

IsPyStr(d) == d.t \in {"str", "raw"}

Get(p, k) == IF k \in DOMAIN p THEN p[k] ELSE None
GetDate(p, k) == IF k \in DOMAIN p THEN p[k] ELSE NoDate


-----------------------------------------------------------------------------
(* Contents.  The strings are real so that len(content) is computed, not    *)
(* assumed; the keyword match and the NER of the external tagger are tables *)
(* over them.                                                               *)

C_EMPTY == ""
C_SHORT == "Sensex ends flat."
C_MID == "Bank stocks rose on Monday as lenders posted a record loan book."
C_BANK == "Bank stocks rose on Monday as lenders posted a record loan book, and car makers reported record sales for a second month running."
C_BANKAUTO == "Bank stocks rose on Monday as lenders posted a record loan book, and automobile makers reported record sales for a second month running."
C_ENERGY == "Crude slumped on Tuesday and dragged energy shares lower, as producers warned of weaker margins for a second quarter."
C_PLAIN == "Sales of cars and of scooters rose for the second month in a row as buyers across several northern cheered lower sales levy and cheaper loans."

BANKING == "Banking & Financial Services"
AUTO == "Automobile"
ENERGY == "Energy"

\* SECTOR_KEYWORDS applied to the lower-cased text: 'bank' -> Banking & Financial
\* Services, 'automobile'/'auto' -> Automobile, 'energy' -> Energy; the other
\* texts hold no keyword.
SectorsOf(text) ==
    CASE text = C_MID -> {BANKING}
      [] text = C_BANK -> {BANKING}
      [] text = C_BANKAUTO -> {BANKING, AUTO}
      [] text = C_ENERGY -> {ENERGY}
      [] OTHER -> {}

\* The ORG entities the NER keeps; an external capability, fixed per text.
CompaniesOf(text) ==
    CASE text = C_BANKAUTO -> {"Tata Motors"}
      [] OTHER -> {}

\* extract_companies_and_sectors(text) -> (companies, sectors)
extract_companies_and_sectors(text) ==
    [companies |-> CompaniesOf(text), sectors |-> SectorsOf(text)]

\* Python truthiness of a string-typed value: None and "" are falsy.
Truthy(s) == s # None /\ s # ""

\* len(s) of a string value
PyLen(s) == Len(s)

-----------------------------------------------------------------------------
(* The Article Store: insert_article_into_mongodb *)

EnrichKeys == {"sentiment_score", "companies_mentioned", "sectors_mentioned"}

\* Lines 597-604: a string 'date' is parsed into 'publication_date' and popped.
ConvertDate(p) ==
    IF "date" \in DOMAIN p /\ IsPyStr(p.date)
    THEN [k \in (DOMAIN p \ {"date"}) \cup {"publication_date"} |->
             IF k = "publication_date" THEN ParseIsoDate(p.date) ELSE p[k]]
    ELSE p

\* Lines 606-608: setdefault of the three enrichment fields.
SetDefaults(p) ==
    [k \in DOMAIN p \cup EnrichKeys |->
        IF k \in DOMAIN p THEN p[k]
        ELSE IF k = "sentiment_score" THEN NoScore
        ELSE {}]

\* The '$set' document of lines 614-622.
SetDocument(p) ==
    LET q == SetDefaults(ConvertDate(p)) IN
    [title |-> Get(q, "title"),
     content |-> Get(q, "content"),
     publication_date |-> GetDate(q, "publication_date"),
     source |-> Get(q, "source"),
     sentiment_score |-> q.sentiment_score,
     companies_mentioned |-> q.companies_mentioned,
     sectors_mentioned |-> q.sectors_mentioned]

SetKeys == {"title", "content", "publication_date", "source",
            "sentiment_score", "companies_mentioned", "sectors_mentioned"}

\* '$set' applied to a stored document: the named fields are overwritten.
ApplySet(d, s) ==
    [k \in DOMAIN d |-> IF k \in DOMAIN s THEN s[k] ELSE d[k]]

\* The documents the filter {'url': url} matches.
MatchUrl(coll, url) == {d \in coll : d.url = url}

\* The document an upsert creates: the filter's equality fields plus '$set'.
NewArticle(id, url, s) ==
    [k \in {"id", "url"} \cup SetKeys |->
        IF k = "id" THEN id ELSE IF k = "url" THEN url ELSE s[k]]


\* The _id the server gives a document inserted into coll: one no document of
\* the collection holds (documents of these two collections are never deleted).
FreshId(coll) == Cardinality(coll) + 1

\* Mutant: the index on url is created without unique=True.
UrlIndexNotUnique == FALSE

\* connect_to_mongodb: create_index([("url", ASCENDING)], unique=True).
UniqueUrlIndex == TRUE

\* update_one when the filter matches: one matching document gets the '$set'.
UpdateMatched(coll, url, s) ==
    LET d == CHOOSE x \in MatchUrl(coll, url) : TRUE
    IN (coll \ {d}) \cup {ApplySet(d, s)}

\* Mutant: a matched document counts as updated whether or not it was modified.
ReturnValueIgnoringModified(upserted, matched, modified, title) ==
    IF upserted THEN title # None ELSE matched

\* Lines 627-645: the value insert_article_into_mongodb returns, from the
\* UpdateResult.  After an upsert the log line slices article_data['title'];
\* a None title raises TypeError there, which line 643 catches.
ReturnValue(upserted, matched, modified, title) ==
    IF upserted THEN title # None
    ELSE IF matched /\ ~modified THEN FALSE
    ELSE IF matched /\ modified THEN TRUE
    ELSE FALSE

\* What insert_article_into_mongodb(collection, p) does to the collection when
\* nothing runs between its query and its write: [coll, ret, upserted].
UpsertArticleResult(coll, p) ==
    LET s == SetDocument(p)
        m == MatchUrl(coll, p.url)
        id == FreshId(coll)
    IN IF m = {}
       THEN [coll |-> coll \cup {NewArticle(id, p.url, s)},
             upserted |-> TRUE,
             ret |-> ReturnValue(TRUE, FALSE, FALSE, s.title)]
       ELSE LET c2 == UpdateMatched(coll, p.url, s)
            IN [coll |-> c2,
                upserted |-> FALSE,
                ret |-> ReturnValue(FALSE, TRUE, c2 # coll, s.title)]

-----------------------------------------------------------------------------
(* The ingestion adapters' payloads *)

\* fetch_news_from_finnhub, lines 394-403
FinnhubPayload(item) ==
    [title |-> item.headline,
     content |-> item.summary,
     url |-> item.url,
     publication_date |-> DateStr(item.day),
     source |-> "Finnhub",
     sentiment_score |-> NoScore,
     companies_mentioned |-> {},
     sectors_mentioned |-> {}]

\* An ISO-8601 timestamp of calendar day n, as an upstream API sends it.
IsoTimestamp(n) == [t |-> "iso", day |-> n]

\* fetch_news_from_marketaux, lines 491-498: published_at is parsed with
\* fromisoformat and formatted as 'YYYY-MM-DD'; a value that does not parse
\* is kept as the raw string, a missing one is None.
MarketauxDate(published_at) ==
    IF published_at.t = "iso" THEN DateStr(published_at.day) ELSE published_at

\* fetch_news_from_marketaux, lines 491-509
MarketauxPayload(item) ==
    [title |-> item.title,
     content |-> item.description,
     url |-> item.url,
     publication_date |-> MarketauxDate(item.published_at),
     source |-> "Marketaux",
     sentiment_score |-> NoScore,
     companies_mentioned |-> {},
     sectors_mentioned |-> {}]

\* Lines 405 and 511: the record is skipped unless url, title and content are truthy.
HasCrucialData(p) == Truthy(p.url) /\ Truthy(p.title) /\ Truthy(p.content)

\* scrape_economic_times_headlines, lines 284-289: parse_article_page succeeded.
ETDetailsPayload(li) ==
    [title |-> li.title,
     date |-> li.date,
     content |-> li.page,
     url |-> li.url,
     source |-> "Economic Times"]

\* scrape_economic_times_headlines, lines 301-310: parse_article_page failed.
ETBasicPayload(li) ==
    [title |-> li.title,
     date |-> li.date,
     content |-> PLACEHOLDER,
     url |-> li.url,
     source |-> "Economic Times",
     sentiment_score |-> NoScore,
     companies_mentioned |-> {},
     sectors_mentioned |-> {}]

PageFailed == "<no page>"

ETPayload(li) == IF li.page = PageFailed THEN ETBasicPayload(li) ELSE ETDetailsPayload(li)


-----------------------------------------------------------------------------
(* The Market Bar Store: the upsert of fetch_historical_market_data *)

\* connect_to_market_data_mongodb: unique compound index on (symbol, date).
UniqueBarIndex == TRUE

BarKeys == {"symbol", "date", "open", "high", "low", "close", "volume"}

\* market_data_collector.py lines 145-159: the record of one downloaded row;
\* the row's date becomes a datetime at midnight.
MarketRecord(ticker, day, q) ==
    [symbol |-> ticker, date |-> DateTime(day),
     open |-> q.open, high |-> q.high, low |-> q.low, close |-> q.close,
     volume |-> q.volume]

\* The documents the filter {'symbol': ticker, 'date': date} matches.
MatchBar(coll, symbol, date) == {d \in coll : d.symbol = symbol /\ d.date = date}

NewBar(id, rec) == [k \in {"id"} \cup BarKeys |-> IF k = "id" THEN id ELSE rec[k]]

\* update_one({'symbol', 'date'}, {'$set': market_record}, upsert=True) with
\* nothing running between its query and its write.
UpsertBarResult(coll, rec) ==
    LET m == MatchBar(coll, rec.symbol, rec.date)
        id == FreshId(coll)
    IN IF m = {}
       THEN [coll |-> coll \cup {NewBar(id, rec)}, upserted |-> TRUE]
       ELSE LET d == CHOOSE x \in m : TRUE
            IN [coll |-> (coll \ {d}) \cup {ApplySet(d, rec)}, upserted |-> FALSE]

-----------------------------------------------------------------------------
(* Enrichment: nlp_processor.py *)

\* The query of process_and_update_sentiment (lines 173-176).
NeedsSentiment(d) == d.sentiment_score = NoScore /\ d.content # PLACEHOLDER

\* Line 188: `not article_content or len(article_content) < 50`.
TooShortForSentiment(d) == ~Truthy(d.content) \/ PyLen(d.content) < 50

\* The query of process_and_update_entities (lines 235-243).
NeedsEntities(d) ==
    /\ (d.companies_mentioned = {} \/ d.sectors_mentioned = {})
    /\ d.content # PLACEHOLDER

\* Line 255: `not article_content or len(article_content) < 100`.
TooShortForEntities(d) == ~Truthy(d.content) \/ PyLen(d.content) < 100

\* A variant whose query returns the scored articles too.
SentimentUpdateRescoring(d, score) ==
    IF d.content # PLACEHOLDER /\ ~TooShortForSentiment(d) /\ score # NoScore
    THEN [d EXCEPT !.sentiment_score = score]
    ELSE d

\* Lines 183-200 for one article: score is what get_sentiment_score returned
\* (NoScore when it returned None).
SentimentUpdate(d, score) ==
    IF NeedsSentiment(d) /\ ~TooShortForSentiment(d) /\ score # NoScore
    THEN [d EXCEPT !.sentiment_score = score]
    ELSE d

\* Lines 250-273 for one article: only the non-empty results are '$set'.
EntitiesUpdate(d) ==
    IF NeedsEntities(d) /\ ~TooShortForEntities(d)
    THEN LET e == extract_companies_and_sectors(d.content)
         IN [d EXCEPT
               !.companies_mentioned = IF e.companies # {} THEN e.companies ELSE @,
               !.sectors_mentioned = IF e.sectors # {} THEN e.sectors ELSE @]
    ELSE d


-----------------------------------------------------------------------------
(* Bounds and the upstream data the adapters can be handed *)

MaxDay == 1
Days == 1..MaxDay

URLs == {"u1", "u2"}
Titles == {"T1"}
Scores == {40, 80}
Symbols == {"^NSEI", "^NSEBANK"}

FinnhubItems ==
    [url : URLs, headline : Titles, summary : {C_MID, C_BANKAUTO}, day : {1}]

MarketauxItems ==
    [url : URLs, title : Titles, description : {C_BANK}, published_at : {NoDate}]

ETItems ==
    [url : URLs, title : Titles, date : {DateStr(1), DateRaw(1)},
     page : {C_EMPTY, PageFailed}]

\* Every payload an ingestion adapter hands to insert_article_into_mongodb.
AdapterPayloads ==
    {FinnhubPayload(i) : i \in FinnhubItems}
        \cup {MarketauxPayload(i) : i \in MarketauxItems}
        \cup {ETPayload(i) : i \in ETItems}

Quotes ==
    {[open |-> 100, high |-> 110, low |-> 90, close |-> 100, volume |-> 1000],
     [open |-> 100, high |-> 120, low |-> 95, close |-> 110, volume |-> 2000]}

MarketRecords == {MarketRecord(t, n, q) : t \in {"^NSEBANK"}, n \in Days, q \in Quotes}

-----------------------------------------------------------------------------
(* State shared by the specifications *)

Writers == {1, 2}

NoOp == [op |-> "none", req |-> [url |-> None], ret |-> FALSE,
         changed |-> FALSE, repeat |-> FALSE]

NoRequest == [kind |-> "none"]
NoReturn == [outcome |-> "none", ret |-> FALSE, calls |-> 0]

NoRun == [run |-> 0, prior |-> {}, records |-> {}, summaries |-> {}, result |-> "none"]
NoObservation == [run |-> 0, insights_data |-> {}]

\* The day the model starts on.
StartDay == 1

NoFetch == [fetcher |-> "none", key |-> None, dated |-> {}, start |-> 0,
            sent |-> FALSE, written |-> {}]

NoSignal == [labels |-> <<>>]
NoPipeline ==
    [stage |-> "none", module |-> "none", news |-> FALSE, market |-> FALSE,
     attempted |-> {}, failed |-> {}, requests |-> {},
     pre_articles |-> {}, pre_bars |-> {}, tickers |-> <<>>,
     batch |-> [source \in {"Finnhub", "Marketaux"} |-> <<>>]]

\* No call of get_html_content has been made.
NoHttp == [pc |-> "idle", calls |-> 0, url |-> None, retries |-> 0, i |-> 0,
           log |-> <<>>, sleeps |-> 0, ret |-> None]

Init ==
    /\ articles = {}
    /\ bars = {}
    /\ insights = {}
    /\ last = NoOp
    /\ wpc = [w \in Writers |-> "idle"]
    /\ wreq = [w \in Writers |-> NoRequest]
    /\ wret = [w \in Writers |-> NoReturn]
    /\ gpc = "idle"
    /\ grun = NoRun
    /\ observed = NoObservation
    /\ today = StartDay
    /\ fetch = NoFetch
    /\ sig = NoSignal
    /\ pipe = NoPipeline
    /\ http = NoHttp

raceVars == <<wpc, wreq, wret>>
fetchVars == <<today, fetch>>
runVars == <<gpc, grun, observed, insights>>
auxVars == <<sig, pipe, http>>

-----------------------------------------------------------------------------
(* The store operations, one call at a time *)

\* insert_article_into_mongodb(collection, p), called by an ingestion adapter.
InsertArticle(p) ==
    /\ articles' = UpsertArticleResult(articles, p).coll
    /\ UNCHANGED <<bars, raceVars, runVars, fetchVars, auxVars>>

\* One pass of the upsert loop of fetch_historical_market_data for one row.
UpsertBar(rec) ==
    /\ bars' = UpsertBarResult(bars, rec).coll
    /\ UNCHANGED <<articles, raceVars, runVars, fetchVars, auxVars>>

\* process_and_update_sentiment(collection): every article the query returns
\* is scored by the external model (which may return None) and updated.
ProcessSentiment ==
    \E score \in [articles -> Scores \cup {NoScore}] :
        /\ articles' = {SentimentUpdate(d, score[d]) : d \in articles}
        /\ UNCHANGED <<bars, raceVars, runVars, fetchVars, auxVars>>

\* process_and_update_entities(collection)
ProcessEntities ==
    /\ articles' = {EntitiesUpdate(d) : d \in articles}
    /\ UNCHANGED <<bars, raceVars, runVars, fetchVars, auxVars>>

\* The history variable: the call just made, what it returned, whether it
\* changed a store, and whether it repeats the call before it.
Record(op, req, ret, changed, repeat) ==
    last' = [op |-> op, req |-> req, ret |-> ret, changed |-> changed, repeat |-> repeat]

StoreNext ==
    \/ \E p \in AdapterPayloads :
          /\ InsertArticle(p)
          /\ Record("insert_article", p, UpsertArticleResult(articles, p).ret,
                    articles' # articles, last.op = "insert_article" /\ last.req = p)
    \/ \E rec \in MarketRecords :
          /\ UpsertBar(rec)
          /\ Record("upsert_bar", rec, UpsertBarResult(bars, rec).upserted,
                    bars' # bars, last.op = "upsert_bar" /\ last.req = rec)
    \/ ProcessSentiment
          /\ Record("sentiment", [url |-> None], FALSE, articles' # articles, FALSE)
    \/ ProcessEntities
          /\ Record("entities", [url |-> None], FALSE, articles' # articles, FALSE)

SpecStore == Init /\ [][StoreNext]_vars


-----------------------------------------------------------------------------
(* Claims about single store operations (SpecStore) *)

\* C2: upserting the same article, or the same market bar, twice in a row with
\* identical data leaves the store after the second call exactly as it was
\* after the first, and the second article upsert returns False (the second
\* bar upsert counts no new record).
C2_UpsertTwiceIdempotent ==
    last.repeat => ~last.changed /\ last.ret = FALSE

C2_Witness ==
    /\ last.op = "insert_article"
    /\ last.repeat
    /\ \E d \in articles : d.url = last.req.url /\ d.content = last.req.content

Enriched(d) ==
    /\ d.sentiment_score # NoScore
    /\ d.companies_mentioned # {}
    /\ d.sectors_mentioned # {}

SuppliesNoEnrichment(p) ==
    LET s == SetDocument(p) IN
    s.sentiment_score = NoScore /\ s.companies_mentioned = {} /\ s.sectors_mentioned = {}

\* C3: when an already enriched article is upserted again by an ingestion
\* adapter whose payload supplies no real enrichment values, its stored
\* sentiment_score, companies_mentioned and sectors_mentioned stay as they were.
C3_ReingestKeepsEnrichment ==
    [][\A d \in articles :
          (/\ Enriched(d)
           /\ last'.op = "insert_article"
           /\ last'.req.url = d.url
           /\ SuppliesNoEnrichment(last'.req))
          => \E e \in articles' :
                /\ e.url = d.url
                /\ e.sentiment_score = d.sentiment_score
                /\ e.companies_mentioned = d.companies_mentioned
                /\ e.sectors_mentioned = d.sectors_mentioned]_vars


-----------------------------------------------------------------------------
(* Concurrent writers (SpecRace).  update_one(..., upsert=True) is a query    *)
(* followed, when nothing matched, by an insert; another writer can run       *)
(* between the two.  The unique index makes the later insert of an existing   *)
(* key fail with DuplicateKeyError.                                           *)

MaxCalls == 2

RacePayloads ==
    {FinnhubPayload(i) : i \in [url : URLs, headline : Titles,
                                 summary : {C_MID, C_BANKAUTO}, day : {1}]}
        \cup {MarketauxPayload(i) : i \in MarketauxItems}

RaceRequests ==
    {[kind |-> "article", p |-> p] : p \in RacePayloads}
        \cup {[kind |-> "bar", p |-> rec] : rec \in MarketRecords}

Fields(d) == [k \in SetKeys |-> d[k]]

\* The query phase of the call: a match is updated at once (the update of one
\* document is atomic), no match leaves the insert to be done.
CallUpsert(w, req) ==
    /\ wpc[w] = "idle"
    /\ wret[w].calls < MaxCalls
    /\ wreq' = [wreq EXCEPT ![w] = req]
    /\ IF req.kind = "article"
       THEN LET m == MatchUrl(articles, req.p.url)
                s == SetDocument(req.p)
                c2 == UpdateMatched(articles, req.p.url, s)
            IN IF m = {}
               THEN /\ wpc' = [wpc EXCEPT ![w] = "insert"]
                    /\ UNCHANGED <<articles, bars, wret>>
               ELSE /\ articles' = c2
                    /\ wret' = [wret EXCEPT ![w] =
                          [outcome |-> IF c2 # articles THEN "updated" ELSE "unchanged",
                           ret |-> ReturnValue(FALSE, TRUE, c2 # articles, s.title),
                           calls |-> @.calls + 1]]
                    /\ UNCHANGED <<bars, wpc>>
       ELSE LET m == MatchBar(bars, req.p.symbol, req.p.date)
                r == UpsertBarResult(bars, req.p)
            IN IF m = {}
               THEN /\ wpc' = [wpc EXCEPT ![w] = "insert"]
                    /\ UNCHANGED <<articles, bars, wret>>
               ELSE /\ bars' = r.coll
                    /\ wret' = [wret EXCEPT ![w] =
                          [outcome |-> IF r.coll # bars THEN "updated" ELSE "unchanged",
                           ret |-> FALSE, calls |-> @.calls + 1]]
                    /\ UNCHANGED <<articles, wpc>>
    /\ UNCHANGED <<last, runVars, fetchVars, auxVars>>

\* The insert phase.  With the key present by now, the unique index raises
\* DuplicateKeyError: insert_article_into_mongodb prints and returns False
\* (lines 640-642), fetch_historical_market_data prints and goes on (172-175).
FinishUpsert(w) ==
    /\ wpc[w] = "insert"
    /\ wpc' = [wpc EXCEPT ![w] = "idle"]
    /\ IF wreq[w].kind = "article"
       THEN LET p == wreq[w].p
                s == SetDocument(p)
            IN IF UniqueUrlIndex /\ MatchUrl(articles, p.url) # {}
               THEN /\ wret' = [wret EXCEPT ![w] =
                          [outcome |-> "duplicate_key", ret |-> FALSE,
                           calls |-> @.calls + 1]]
                    /\ UNCHANGED <<articles, bars>>
               ELSE /\ articles' = articles \cup {NewArticle(FreshId(articles), p.url, s)}
                    /\ wret' = [wret EXCEPT ![w] =
                          [outcome |-> "inserted",
                           ret |-> ReturnValue(TRUE, FALSE, FALSE, s.title),
                           calls |-> @.calls + 1]]
                    /\ UNCHANGED bars
       ELSE LET rec == wreq[w].p
            IN IF UniqueBarIndex /\ MatchBar(bars, rec.symbol, rec.date) # {}
               THEN /\ wret' = [wret EXCEPT ![w] =
                          [outcome |-> "duplicate_key", ret |-> FALSE,
                           calls |-> @.calls + 1]]
                    /\ UNCHANGED <<articles, bars>>
               ELSE /\ bars' = bars \cup {NewBar(FreshId(bars), rec)}
                    /\ wret' = [wret EXCEPT ![w] =
                          [outcome |-> "inserted", ret |-> TRUE,
                           calls |-> @.calls + 1]]
                    /\ UNCHANGED articles
    /\ UNCHANGED <<wreq, last, runVars, fetchVars, auxVars>>

RaceNext ==
    \/ \E w \in Writers, req \in RaceRequests : CallUpsert(w, req)
    \/ \E w \in Writers : FinishUpsert(w)

SpecRace == Init /\ [][RaceNext]_vars

\* C1: after any sequence of article upserts and market-bar upserts, the
\* Article Store never holds two documents with the same url and the Market
\* Bar Store never holds two bars with the same (symbol, date).
C1_NoDuplicateKeys ==
    /\ \A d1, d2 \in articles : d1.url = d2.url => d1 = d2
    /\ \A b1, b2 \in bars : (b1.symbol = b2.symbol /\ b1.date = b2.date) => b1 = b2

C1_Witness ==
    /\ \E w \in Writers : wret[w].outcome = "duplicate_key"
    /\ articles # {}
    /\ bars # {}

Other(w) == CHOOSE o \in Writers : o # w

\* C4: when two writers upsert the same url concurrently and one loses the
\* unique-key race (DuplicateKeyError), the loser retries as an update: once
\* both calls have finished the store holds exactly one document for the url,
\* and, the loser's update having run after the winner's insert, its fields
\* are the ones the loser wrote.
C4_RaceLoserRetriesAsUpdate ==
    \A w \in Writers :
        (/\ wpc[w] = "idle" /\ wpc[Other(w)] = "idle"
         /\ wret[w].calls = 1 /\ wret[Other(w)].calls = 1
         /\ wreq[w].kind = "article"
         /\ wret[w].outcome = "duplicate_key")
        => LET m == MatchUrl(articles, wreq[w].p.url) IN
           /\ Cardinality(m) = 1
           /\ \A d \in m : Fields(d) = SetDocument(wreq[w].p)


-----------------------------------------------------------------------------
(* Numbers of the analytics stage.  A float is an exact fraction [n, d] with  *)
(* d > 0 in lowest terms; NaN is the fraction with d = 0.  Sentiment scores   *)
(* and their means are counted in hundredths (0.65 is 65).                    *)

RECURSIVE Gcd(_, _)
Gcd(a, b) == IF b = 0 THEN a ELSE Gcd(b, a % b)

Abs(x) == IF x < 0 THEN -x ELSE x

NaN == [n |-> 0, d |-> 0]
IsNaN(x) == x.d = 0

\* The fraction a / b, b # 0.
Frac(a, b) ==
    LET g == Gcd(Abs(a), Abs(b))
        sgn == IF b < 0 THEN -1 ELSE 1
    IN [n |-> sgn * (a \div g), d |-> sgn * (b \div g)]

Num(i) == [n |-> i, d |-> 1]

\* Float comparisons: any comparison with NaN is False.
Lt(x, y) == ~IsNaN(x) /\ ~IsNaN(y) /\ x.n * y.d < y.n * x.d
Gt(x, y) == Lt(y, x)

RECURSIVE SumOver(_, _)
\* The sum of f[x] over the finite set S.
SumOver(S, f) ==
    IF S = {} THEN 0
    ELSE LET x == CHOOSE y \in S : TRUE IN f[x] + SumOver(S \ {x}, f)

-----------------------------------------------------------------------------
(* Sector Aggregator: generate_and_store_insights, steps 1 and 2 *)

NaT == 0

\* pd.to_datetime(...).dt.date of a stored publication_date: the calendar day
\* of a datetime or of a date string, NaT of None.
CalendarDay(date) == IF date.t = "none" THEN NaT ELSE date.day

\* A variant that reads every article, scored or not.
NewsDataUnfiltered(coll) == coll

\* news_collection.find({'sentiment_score': {'$ne': None}})
NewsData(coll) == {d \in coll : d.sentiment_score # NoScore}

\* news_df.explode('sectors_mentioned'): one row per article and sector it
\* mentions; an empty list gives one row whose sector is NaN.
NaNSector == "NaN"

\* A variant without fan-out: an article counts for one of its sectors only.
ExplodedFirstSectorOnly(d) ==
    IF d.sectors_mentioned = {} THEN {NaNSector}
    ELSE {CHOOSE sec \in d.sectors_mentioned : TRUE}

ExplodedSectors(d) ==
    IF d.sectors_mentioned = {} THEN {NaNSector} ELSE d.sectors_mentioned

Explode(news) ==
    UNION {{[id |-> d.id, publication_date |-> CalendarDay(d.publication_date),
             sectors_mentioned |-> sec, sentiment_score |-> d.sentiment_score] :
                sec \in ExplodedSectors(d)} : d \in news}

\* groupby(['publication_date', 'sectors_mentioned']): rows with a NaT or NaN
\* key belong to no group.
GroupKeys(rows) ==
    {<<r.publication_date, r.sectors_mentioned>> :
        r \in {x \in rows : x.publication_date # NaT /\ x.sectors_mentioned # NaNSector}}

GroupRows(rows, key) ==
    {r \in rows : r.publication_date = key[1] /\ r.sectors_mentioned = key[2]}

\* .agg(avg_sentiment=('sentiment_score', 'mean'), num_articles=(..., 'count'))
\* and the renaming of lines 110-111.
AggregateSentiment(news) ==
    LET rows == Explode(news) IN
    {LET g == GroupRows(rows, key)
         score == [r \in g |-> r.sentiment_score]
     IN [date |-> key[1], sector |-> key[2],
         avg_sentiment |-> Frac(SumOver(g, score), 100 * Cardinality(g)),
         num_articles |-> Cardinality(g)] : key \in GroupKeys(rows)}


-----------------------------------------------------------------------------
(* Sector-Ticker Resolver and Market-Sentiment Joiner: step 3 *)

sector_to_ticker_mapping ==
    [sec \in {BANKING, "Information Technology", AUTO, "Healthcare & Pharma",
              "FMCG", "Metals & Mining", "Media & Entertainment", "Real Estate"} |->
        CASE sec = BANKING -> "^NSEBANK"
          [] sec = "Information Technology" -> "^CNXIT"
          [] sec = AUTO -> "^CNXAUTO"
          [] sec = "Healthcare & Pharma" -> "^CNXPHARM"
          [] sec = "FMCG" -> "^CNXFMCG"
          [] sec = "Metals & Mining" -> "^CNXMETAL"
          [] sec = "Media & Entertainment" -> "^CNXMEDIA"
          [] sec = "Real Estate" -> "^CNXREALTY"]

\* A variant that files every symbol without a sector under Energy.
ticker_to_sector_with_default(symbol) ==
    LET secs == {sec \in DOMAIN sector_to_ticker_mapping :
                    sector_to_ticker_mapping[sec] = symbol}
    IN IF secs = {} THEN ENERGY ELSE CHOOSE sec \in secs : TRUE

\* ticker_to_sector_mapping = {v: k for k, v in sector_to_ticker_mapping.items()}
\* applied by market_df['symbol'].map(...): NaN for a symbol that is no key.
ticker_to_sector_mapping(symbol) ==
    LET secs == {sec \in DOMAIN sector_to_ticker_mapping :
                    sector_to_ticker_mapping[sec] = symbol}
    IN IF secs = {} THEN NaNSector ELSE CHOOSE sec \in secs : TRUE

\* pd.merge(sentiment_by_sector, market_df, on=['date', 'sector'], how='inner')
JoinSentimentMarket(summaries, market) ==
    {[date |-> sm.date, sector |-> sm.sector,
      avg_sentiment |-> sm.avg_sentiment, num_articles |-> sm.num_articles,
      symbol |-> b.symbol, open |-> b.open, high |-> b.high, low |-> b.low,
      close |-> b.close, volume |-> b.volume] :
        <<sm, b>> \in {pr \in summaries \X market :
                         /\ CalendarDay(pr[2].date) = pr[1].date
                         /\ ticker_to_sector_mapping(pr[2].symbol) = pr[1].sector}}

-----------------------------------------------------------------------------
(* Technical Indicator Engine: step 4 and calculate_beta *)

RECURSIVE SortBy(_, _)
\* The elements of S as a sequence in ascending key[x] order.
SortBy(S, key) ==
    IF S = {} THEN <<>>
    ELSE LET p == CHOOSE y \in S :
                     /\ 2 * Cardinality({z \in S : key[z] < key[y]}) <= Cardinality(S)
                     /\ 2 * Cardinality({z \in S : key[z] > key[y]}) <= Cardinality(S)
             x == CHOOSE y \in S : key[y] = key[p]
         IN SortBy({z \in S : key[z] < key[p]}, key)
               \o <<x>>
               \o SortBy({z \in S \ {x} : key[z] = key[p]}, key)
               \o SortBy({z \in S : key[z] > key[p]}, key)

RECURSIVE SeqSum(_, _, _)
\* f[i] summed for i in lo..hi
SeqSum(f, lo, hi) ==
    IF lo > hi THEN 0
    ELSE IF lo = hi THEN f[lo]
    ELSE SeqSum(f, lo, (lo + hi) \div 2) + SeqSum(f, (lo + hi) \div 2 + 1, hi)

\* A variant that averages the rows it has when the window is not full
\* (min_periods=1).
RollingMeanPartial(closes, i, w) ==
    IF i < w THEN Frac(SeqSum(closes, 1, i), i) ELSE Frac(SeqSum(closes, i - w + 1, i), w)

\* x.rolling(window=w).mean() at position i of the sequence of closes.
RollingMean(closes, i, w) ==
    IF i < w THEN NaN ELSE Frac(SeqSum(closes, i - w + 1, i), w)

\* insights_df.sort_values(['sector', 'date']) then, per sector,
\* close.rolling(window=w).mean(): the value on the row `row`.
SMA(rows, row, w) ==
    LET group == {r \in rows : r.sector = row.sector}
        sorted == SortBy(group, [r \in group |-> r.date])
        closes == [i \in 1..Len(sorted) |-> sorted[i].close]
        i == CHOOSE j \in 1..Len(sorted) : sorted[j] = row
    IN RollingMean(closes, i, w)

SMA_SHORT == 20
SMA_LONG == 50

\* A variant that divides the moving average by the close.
SmaToPrice(close, sma) ==
    IF IsNaN(sma) \/ close = 0 THEN NaN ELSE Frac(sma.n, sma.d * close)

\* insights_df['close'] / insights_df['sma_50']
PriceToSma(close, sma) ==
    IF IsNaN(sma) \/ sma.n = 0 THEN NaN ELSE Frac(close * sma.d, sma.n)


\* Float arithmetic on exact fractions; an operation on NaN gives NaN.  The
\* operands are reduced before they are multiplied, to keep the integers small.
RAdd(x, y) ==
    IF IsNaN(x) \/ IsNaN(y) THEN NaN
    ELSE LET g == Gcd(x.d, y.d)
         IN Frac(x.n * (y.d \div g) + y.n * (x.d \div g), x.d * (y.d \div g))

RSub(x, y) == RAdd(x, [n |-> -y.n, d |-> y.d])

RMul(x, y) ==
    IF IsNaN(x) \/ IsNaN(y) THEN NaN
    ELSE LET g1 == Gcd(Abs(x.n), y.d)
             g2 == Gcd(Abs(y.n), x.d)
         IN Frac((x.n \div g1) * (y.n \div g2), (x.d \div g2) * (y.d \div g1))

RDiv(x, y) ==
    IF IsNaN(x) \/ IsNaN(y) \/ y.n = 0 THEN NaN
    ELSE RMul(x, Frac(y.d, y.n))

RECURSIVE RSumOver(_, _)
\* The sum of the fractions f[x] over the finite set S of row positions.
RSumOver(S, f) ==
    IF S = {} THEN Num(0)
    ELSE LET lo == CHOOSE y \in S : \A z \in S : y <= z
             hi == CHOOSE y \in S : \A z \in S : y >= z
             mid == (lo + hi) \div 2
         IN IF lo = hi THEN f[lo]
            ELSE RAdd(RSumOver({z \in S : z <= mid}, f), RSumOver({z \in S : z > mid}, f))

\* Series.pct_change() at position i: NaN on the first row.
PctChange(closes, i) ==
    IF i = 1 \/ closes[i - 1] = 0 THEN NaN
    ELSE Frac(closes[i] - closes[i - 1], closes[i - 1])

\* list(market_data_collection.find()): the documents in insertion order.
StoreOrder(coll) == [i \in 1..Cardinality(coll) |-> CHOOSE d \in coll : d.id = i]

MIN_BETA_POINTS == 10

\* market_df[market_df['symbol'] == symbol], in the order find() returned.
SymbolRows(market, symbol) ==
    SelectSeq(StoreOrder(market), LAMBDA r : r.symbol = symbol)

Closes(rows) == [i \in 1..Len(rows) |-> rows[i].close]

\* nifty_50_data['nifty_return'] on the row of `date` (line 40).
NiftyReturn(nifty_50_data, date) ==
    PctChange(Closes(nifty_50_data),
              CHOOSE j \in 1..Len(nifty_50_data) : nifty_50_data[j].date = date)

\* pd.merge(sector_data, nifty_50_data, on='date'): the sector rows that have
\* a benchmark row of the same date, in the order of the sector rows.
MergeOnDate(sector_data, nifty_50_data) ==
    SelectSeq(sector_data, LAMBDA r :
        \E j \in 1..Len(nifty_50_data) : nifty_50_data[j].date = r.date)

\* Series.cov over the rows `kept`, n of them: the sample covariance.
Covariance(kept, x, y, n) ==
    LET mx == RDiv(RSumOver(kept, x), Num(n))
        my == RDiv(RSumOver(kept, y), Num(n))
    IN RDiv(RSumOver(kept, [i \in kept |-> RMul(RSub(x[i], mx), RSub(y[i], my))]),
            Num(n - 1))

\* A variant that answers a zero variance with a beta of zero.
BetaFromReturnsZeroOnFlat(x, y) ==
    LET kept == {i \in DOMAIN x : ~IsNaN(x[i]) /\ ~IsNaN(y[i])}
        n == Cardinality(kept)
        covariance == Covariance(kept, x, y, n)
        variance == Covariance(kept, y, y, n)
    IN IF n > MIN_BETA_POINTS
       THEN IF variance.n # 0 /\ ~IsNaN(covariance) /\ ~IsNaN(variance)
            THEN RDiv(covariance, variance) ELSE Num(0)
       ELSE NaN

\* Lines 56-68 on the two return columns: dropna, the size test, cov / var.
BetaFromReturns(x, y) ==
    LET kept == {i \in DOMAIN x : ~IsNaN(x[i]) /\ ~IsNaN(y[i])}
        n == Cardinality(kept)
        covariance == Covariance(kept, x, y, n)
        variance == Covariance(kept, y, y, n)
    IN IF n > MIN_BETA_POINTS
       THEN IF variance.n # 0 /\ ~IsNaN(covariance) /\ ~IsNaN(variance)
            THEN RDiv(covariance, variance) ELSE NaN
       ELSE NaN

\* Lines 52-53: sector_return is pct_change over the merged rows.
MergedBeta(merged_df, nifty_50_data) ==
    BetaFromReturns([i \in 1..Len(merged_df) |-> PctChange(Closes(merged_df), i)],
                    [i \in 1..Len(merged_df) |-> NiftyReturn(nifty_50_data, merged_df[i].date)])

\* betas[symbol] of calculate_beta(market_df)
calculate_beta(market, symbol) ==
    IF symbol = "^NSEI" THEN Num(1)
    ELSE MergedBeta(MergeOnDate(SymbolRows(market, symbol), SymbolRows(market, "^NSEI")),
                    SymbolRows(market, "^NSEI"))

-----------------------------------------------------------------------------
(* Signal Generator: step 5 *)

\* Float comparisons that also accept equality; False with NaN.
Le(x, y) == ~IsNaN(x) /\ ~IsNaN(y) /\ x.n * y.d <= y.n * x.d
Ge(x, y) == Le(y, x)

\* A variant whose bullish test accepts the boundary values.
generate_signal_bullish_inclusive(row) ==
    LET is_long_term_buy ==
            /\ Lt(row.beta, Frac(105, 100))
            /\ Lt(row.price_to_sma_50_ratio, Frac(95, 100))
        is_bullish_trend ==
            /\ Ge(row.avg_sentiment, Frac(65, 100))
            /\ Ge(Num(row.close), row.sma_20)
            /\ Gt(row.sma_20, row.sma_50)
        is_bearish_trend ==
            /\ Lt(row.avg_sentiment, Frac(35, 100))
            /\ Lt(Num(row.close), row.sma_20)
            /\ Lt(row.sma_20, row.sma_50)
    IN IF is_long_term_buy /\ is_bullish_trend THEN "Buy"
       ELSE IF is_bearish_trend THEN "Sell"
       ELSE "Neutral"

\* A variant whose bearish test accepts the boundary values.
generate_signal_bearish_inclusive(row) ==
    LET is_long_term_buy ==
            /\ Lt(row.beta, Frac(105, 100))
            /\ Lt(row.price_to_sma_50_ratio, Frac(95, 100))
        is_bullish_trend ==
            /\ Gt(row.avg_sentiment, Frac(65, 100))
            /\ Gt(Num(row.close), row.sma_20)
            /\ Gt(row.sma_20, row.sma_50)
        is_bearish_trend ==
            /\ Le(row.avg_sentiment, Frac(35, 100))
            /\ Le(Num(row.close), row.sma_20)
            /\ Lt(row.sma_20, row.sma_50)
    IN IF is_long_term_buy /\ is_bullish_trend THEN "Buy"
       ELSE IF is_bearish_trend THEN "Sell"
       ELSE "Neutral"

\* A variant that returns no label when an input is undefined.
generate_signal_partial(row) ==
    LET is_long_term_buy ==
            /\ Lt(row.beta, Frac(105, 100))
            /\ Lt(row.price_to_sma_50_ratio, Frac(95, 100))
        is_bullish_trend ==
            /\ Gt(row.avg_sentiment, Frac(65, 100))
            /\ Gt(Num(row.close), row.sma_20)
            /\ Gt(row.sma_20, row.sma_50)
        is_bearish_trend ==
            /\ Lt(row.avg_sentiment, Frac(35, 100))
            /\ Lt(Num(row.close), row.sma_20)
            /\ Lt(row.sma_20, row.sma_50)
    IN IF is_long_term_buy /\ is_bullish_trend THEN "Buy"
       ELSE IF is_bearish_trend THEN "Sell"
       ELSE IF IsNaN(row.sma_50) THEN None
       ELSE "Neutral"

generate_signal(row) ==
    LET is_long_term_buy ==
            /\ Lt(row.beta, Frac(105, 100))
            /\ Lt(row.price_to_sma_50_ratio, Frac(95, 100))
        is_bullish_trend ==
            /\ Gt(row.avg_sentiment, Frac(65, 100))
            /\ Gt(Num(row.close), row.sma_20)
            /\ Gt(row.sma_20, row.sma_50)
        is_bearish_trend ==
            /\ Lt(row.avg_sentiment, Frac(35, 100))
            /\ Lt(Num(row.close), row.sma_20)
            /\ Lt(row.sma_20, row.sma_50)
    IN IF is_long_term_buy /\ is_bullish_trend THEN "Buy"
       ELSE IF is_bearish_trend THEN "Sell"
       ELSE "Neutral"

\* records_to_insert: the joined rows with the columns of steps 4 and 5.
InsightRecords(summaries, market) ==
    LET rows == JoinSentimentMarket(summaries, market)
        WithIndicators(r) ==
            LET sma20 == SMA(rows, r, SMA_SHORT)
                sma50 == SMA(rows, r, SMA_LONG)
            IN [date |-> r.date, sector |-> r.sector,
                avg_sentiment |-> r.avg_sentiment, num_articles |-> r.num_articles,
                symbol |-> r.symbol, open |-> r.open, high |-> r.high, low |-> r.low,
                close |-> r.close, volume |-> r.volume,
                sma_20 |-> sma20, sma_50 |-> sma50,
                beta |-> calculate_beta(market, r.symbol),
                price_to_sma_50_ratio |-> PriceToSma(r.close, sma50)]
    IN {LET w == WithIndicators(r)
        IN [date |-> DateTime(w.date), sector |-> w.sector,
            avg_sentiment |-> w.avg_sentiment, num_articles |-> w.num_articles,
            symbol |-> w.symbol, open |-> w.open, high |-> w.high, low |-> w.low,
            close |-> w.close, volume |-> w.volume,
            sma_20 |-> w.sma_20, sma_50 |-> w.sma_50, beta |-> w.beta,
            price_to_sma_50_ratio |-> w.price_to_sma_50_ratio,
            signal |-> generate_signal(w)] : r \in rows}


-----------------------------------------------------------------------------
(* One analytics run and the dashboard reading the Insight Store *)

MaxRuns == 2

\* pd.DataFrame(docs).drop(columns=['_id']) raises KeyError on an empty result
\* (lines 89-90), before the emptiness test of line 92 is reached.
DropIdRaises(news, market) == news = {} \/ market = {}

\* insights_collection.delete_many({})
DeleteAll(coll) == {}

\* A variant that leaves the previous snapshot in place.
DeleteNothing(coll) == coll

DeleteMany(coll) == DeleteAll(coll)

\* Lines 80-177: the run reads both stores and computes its records; it
\* raises, returns 0, or goes on to the write-back.
GenerateBegin ==
    /\ gpc = "idle"
    /\ grun.run < MaxRuns
    /\ LET news == NewsData(articles)
           raised == DropIdRaises(news, bars)
           summaries == IF raised THEN {} ELSE AggregateSentiment(news)
           records == IF raised THEN {} ELSE InsightRecords(summaries, bars)
       IN /\ grun' = [run |-> grun.run + 1, prior |-> insights,
                      records |-> records, summaries |-> summaries,
                      result |-> IF raised THEN "raised"
                                 ELSE IF records = {} THEN "no_match"
                                 ELSE "computed"]
          /\ gpc' = IF raised \/ records = {} THEN "idle" ELSE "delete"
    /\ UNCHANGED <<articles, bars, insights, last, raceVars, observed, fetchVars, auxVars>>

\* Line 182
GenerateDelete ==
    /\ gpc = "delete"
    /\ insights' = DeleteMany(insights)
    /\ gpc' = "insert"
    /\ UNCHANGED <<articles, bars, last, raceVars, grun, observed, fetchVars, auxVars>>

\* Lines 187-199: insert_many adds the records to the collection, or raises
\* (InvalidDocument while encoding, or a server error) with nothing written;
\* the exception is caught and the run returns 0.
GenerateInsert ==
    /\ gpc = "insert"
    /\ \E ok \in BOOLEAN :
          /\ insights' = IF ok THEN insights \cup grun.records ELSE insights
          /\ grun' = [grun EXCEPT !.result = IF ok THEN "stored" ELSE "insert_failed"]
    /\ gpc' = "idle"
    /\ UNCHANGED <<articles, bars, last, raceVars, observed, fetchVars, auxVars>>

\* app.py fetch_and_process_data, line 48: the dashboard reads the Insight Store.
Reader ==
    /\ observed' = [run |-> grun.run, insights_data |-> insights]
    /\ UNCHANGED <<articles, bars, insights, last, raceVars, gpc, grun, fetchVars, auxVars>>


\* The upstream data of the analytics specification: one Finnhub article whose
\* summary changes between fetches, one Economic Times item whose page cannot
\* be scraped, and one bar for each of two sector indices.
InsightPayloads ==
    {FinnhubPayload([url |-> "u1", headline |-> "T1", summary |-> s, day |-> 1]) :
        s \in {C_BANKAUTO, C_BANK}}
    \cup {ETPayload([url |-> "u2", title |-> "T1", date |-> DateStr(1), page |-> PageFailed])}

InsightBars ==
    {MarketRecord(t, 1, CHOOSE q \in Quotes : q.close = 100) : t \in {"^NSEBANK", "^CNXAUTO"}}

InsightsNext ==
    \/ /\ \/ \E p \in InsightPayloads : InsertArticle(p)
          \/ \E rec \in InsightBars : UpsertBar(rec)
          \/ ProcessSentiment
          \/ ProcessEntities
       /\ UNCHANGED last
    \/ GenerateBegin
    \/ GenerateDelete
    \/ GenerateInsert
    \/ Reader

SpecInsights == Init /\ [][InsightsNext]_vars


-----------------------------------------------------------------------------
(* The analytics run over a freshly ingested corpus *)

RECURSIVE IngestAll(_, _)
\* The Article Store after insert_article_into_mongodb on each payload in turn.
IngestAll(coll, payloads) ==
    IF payloads = <<>> THEN coll
    ELSE IngestAll(UpsertArticleResult(coll, Head(payloads)).coll, Tail(payloads))

RECURSIVE UpsertAllBars(_, _)
\* The Market Bar Store after the upsert of each record in turn.
UpsertAllBars(coll, recs) ==
    IF recs = <<>> THEN coll
    ELSE UpsertAllBars(UpsertBarResult(coll, Head(recs)).coll, Tail(recs))

\* What the adapters may have delivered for each of three urls: nothing, or
\* one payload.
CorpusChoices ==
    [u1 : {<<>>,
           <<FinnhubPayload([url |-> "u1", headline |-> "T1", summary |-> C_BANKAUTO, day |-> 1])>>},
     u2 : {<<>>} \cup
          {<<FinnhubPayload([url |-> "u2", headline |-> "T1", summary |-> C_BANK, day |-> n])>> :
              n \in {1, 2}},
     u3 : {<<>>,
           <<FinnhubPayload([url |-> "u3", headline |-> "T1", summary |-> C_PLAIN, day |-> 1])>>,
           <<FinnhubPayload([url |-> "u3", headline |-> "T1", summary |-> C_SHORT, day |-> 1])>>,
           <<MarketauxPayload([url |-> "u3", title |-> "T1", description |-> C_BANK,
                               published_at |-> NoDate])>>,
           <<ETPayload([url |-> "u3", title |-> "T1", date |-> DateStr(1), page |-> PageFailed])>>}]

CorpusBars ==
    LET q == CHOOSE x \in Quotes : x.close = 100 IN
    <<MarketRecord("^NSEBANK", 1, q), MarketRecord("^CNXAUTO", 1, q),
      MarketRecord("^NSEBANK", 2, q)>>

InitAggregate ==
    /\ \E c \in CorpusChoices : articles = IngestAll({}, c.u1 \o c.u2 \o c.u3)
    /\ bars = UpsertAllBars({}, CorpusBars)
    /\ insights = {}
    /\ last = NoOp
    /\ wpc = [w \in Writers |-> "idle"]
    /\ wreq = [w \in Writers |-> NoRequest]
    /\ wret = [w \in Writers |-> NoReturn]
    /\ gpc = "idle"
    /\ grun = NoRun
    /\ observed = NoObservation
    /\ today = StartDay
    /\ fetch = NoFetch
    /\ sig = NoSignal
    /\ pipe = NoPipeline
    /\ http = NoHttp

AggregateNext ==
    \/ /\ \/ ProcessSentiment
          \/ ProcessEntities
       /\ UNCHANGED last
    \/ GenerateBegin
    \/ GenerateDelete
    \/ GenerateInsert
    \/ Reader

SpecAggregate == InitAggregate /\ [][AggregateNext]_vars


-----------------------------------------------------------------------------
(* Properties of the analytics run *)

\* C5: when generate_and_store_insights has completed its write-back, the
\* Insight Store holds exactly the records computed in that run; no row of
\* the previous snapshot survives, whatever its sector or symbol.
C5_WriteBackReplacesSnapshot ==
    (gpc = "idle" /\ grun.result = "stored") => insights = grun.records

\* A completed write-back whose previous snapshot had a row for a sector that
\* the new record set no longer has.
C5_Witness ==
    /\ gpc = "idle"
    /\ grun.result = "stored"
    /\ insights = grun.records
    /\ \E r \in grun.prior : \A n \in grun.records : n.sector # r.sector

\* The snapshot the latest run leaves when it is complete: the previous one
\* if the run ended before its write-back, the computed records otherwise.
NewSnapshot ==
    IF grun.result \in {"raised", "no_match"} THEN grun.prior ELSE grun.records

\* C6: whatever the dashboard reads during or after a run that found a
\* previous snapshot is that previous snapshot or the complete new one, never
\* an empty or partial store.
C6_ReaderSeesCompleteSnapshot ==
    (observed.run = grun.run /\ grun.run > 0 /\ grun.prior # {})
        => observed.insights_data \in {grun.prior, NewSnapshot}

\* The step on which a run reads the stores and computes its summaries.
RunComputes == grun'.run = grun.run + 1 /\ grun'.result # "raised"

Scored(coll) == {d \in coll : d.sentiment_score # NoScore}

\* The scored articles of calendar day `day` that mention sector `sec`.
Mentioning(coll, day, sec) ==
    {d \in Scored(coll) : /\ d.publication_date.t # "none"
                          /\ d.publication_date.day = day
                          /\ sec \in d.sectors_mentioned}

MeanAndCount(summaries, coll) ==
    /\ \A sm \in summaries :
          LET m == Mentioning(coll, sm.date, sm.sector) IN
          /\ m # {}
          /\ sm.num_articles = Cardinality(m)
          /\ ~IsNaN(sm.avg_sentiment)
          /\ sm.avg_sentiment.n * 100 * Cardinality(m)
                = sm.avg_sentiment.d * SumOver(m, [d \in m |-> d.sentiment_score])
    /\ \A d \in Scored(coll) : \A sec \in d.sectors_mentioned :
          d.publication_date.t # "none" =>
              Cardinality({sm \in summaries : sm.date = d.publication_date.day
                                              /\ sm.sector = sec}) = 1

\* C9: a run's summaries hold, for each (publication date, sector) pair, the
\* arithmetic mean and the count of the scores of all scored articles of that
\* date mentioning the sector: an article of several sectors counts in full
\* for each, an article of no sector for none.
C9_MeanAndCountPerDateSector ==
    [][RunComputes => MeanAndCount(grun'.summaries, articles)]_vars

\* Two articles of one day, scored 0.80 and 0.40, both mention Banking and one
\* of them Automobile as well; a third scored article mentions no sector.
C9_Witness ==
    /\ gpc = "delete"
    /\ \E b \in grun.summaries, a \in grun.summaries :
          /\ b.sector = BANKING /\ b.num_articles = 2 /\ b.avg_sentiment = Frac(60, 100)
          /\ a.sector = AUTO /\ a.date = b.date /\ a.num_articles = 1
          /\ a.avg_sentiment \in {Frac(80, 100), Frac(40, 100)}
    /\ \E d \in Scored(articles) : d.sectors_mentioned = {}

\* Content the sentiment step does not score: empty, under 50 characters, or
\* the placeholder of a failed page fetch.
Unscoreable(d) ==
    ~Truthy(d.content) \/ PyLen(d.content) < 50 \/ d.content = PLACEHOLDER

\* C10: no article with unscoreable content ever holds a score, and a run's
\* summaries are those of the scored, scoreable articles alone: an article
\* with a null score or unscoreable content changes no average and no count.
C10_UnscoredNeverContribute ==
    /\ [](\A d \in articles : Unscoreable(d) => d.sentiment_score = NoScore)
    /\ [][RunComputes =>
            grun'.summaries =
                AggregateSentiment({d \in articles : /\ d.sentiment_score # NoScore
                                                     /\ ~Unscoreable(d)})]_vars

\* A run has summarised Banking from one article while a second article of
\* the same day, tagged Banking, has no score and a third has the placeholder
\* as its content.
C10_Witness ==
    /\ gpc = "delete"
    /\ \E sm \in grun.summaries, d \in articles :
          /\ d.sentiment_score = NoScore
          /\ sm.sector \in d.sectors_mentioned
          /\ sm.date = CalendarDay(d.publication_date)
          /\ sm.num_articles = 1
    /\ \E d \in articles : d.content = PLACEHOLDER


-----------------------------------------------------------------------------
(* Smart fetching: the watermark look-ups and the planned fetch windows *)

\* The order of sort(field, DESCENDING) on dates of mixed types: BSON puts
\* every string below every date, and strings compare as text; a
\* 'YYYY-MM-DD' string starts with a digit, a raw string of this model with
\* a month name ("Jan 5, 2025"), so the raw strings come above.
SortRank(date) ==
    CASE date.t = "datetime" -> 3
      [] date.t = "raw" -> 2
      [] date.t = "str" -> 1
      [] OTHER -> 0

DateBefore(a, b) ==
    \/ SortRank(a) < SortRank(b)
    \/ SortRank(a) = SortRank(b) /\ a.day < b.day

\* .sort(field, DESCENDING).limit(1) then .next(): the top value, NoDate on
\* StopIteration.
TopDate(dates) ==
    IF dates = {} THEN NoDate
    ELSE CHOOSE x \in dates : \A y \in dates : ~DateBefore(x, y)

\* database_manager.get_latest_news_date: a datetime is returned, a string is
\* parsed with '%Y-%m-%d' and gives None on ValueError.
get_latest_news_date(coll, source_name) ==
    LET top == TopDate({d.publication_date :
                          d \in {x \in coll : /\ x.source = source_name
                                              /\ x.publication_date # NoDate}})
    IN CASE top.t = "datetime" -> top
         [] top.t = "str" -> DateTime(top.day)
         [] OTHER -> NoDate

\* get_latest_market_data_date: only a datetime is returned.
get_latest_market_data_date(coll, symbol) ==
    LET top == TopDate({d.date : d \in {x \in coll : x.symbol = symbol /\ x.date # NoDate}})
    IN IF top.t = "datetime" THEN top ELSE NoDate

NEWS_DEFAULT_DAYS == 7
PRICE_DEFAULT_DAYS == 1825

\* A variant of the future-date test that never skips.
NeverInFuture(start, now) == FALSE

\* `strptime(start, '%Y-%m-%d').date() > datetime.now().date()`
InFuture(start, now) == start > now

\* fetch_news_from_finnhub lines 338-353 and 370, fetch_news_from_marketaux
\* lines 445-475: the start date sent upstream, and whether the fetch is
\* skipped.
PlanNewsFetch(latest, now) ==
    IF latest # NoDate
    THEN [start |-> latest.day + 1, skipped |-> InFuture(latest.day + 1, now)]
    ELSE [start |-> now - NEWS_DEFAULT_DAYS, skipped |-> FALSE]

\* A variant that asks again for the latest stored day.
PlanPriceFetchFromLatest(latest, start_date, now) ==
    LET start == IF latest # NoDate THEN latest.day ELSE start_date
    IN [start |-> start, skipped |-> InFuture(start, now)]

\* fetch_historical_market_data lines 75-92, for one ticker.
PlanPriceFetch(latest, start_date, now) ==
    LET start == IF latest # NoDate THEN latest.day + 1 ELSE start_date
    IN [start |-> start, skipped |-> InFuture(start, now)]

\* The calendar days of the dated documents a store holds for one key.
StoredNewsDays(coll, source_name) ==
    {d.publication_date.day :
        d \in {x \in coll : x.source = source_name /\ x.publication_date.t # "none"}}

StoredBarDays(coll, symbol) ==
    {d.date.day : d \in {x \in coll : x.symbol = symbol /\ x.date.t # "none"}}


\* scrape_economic_times_headlines lines 270-273: a listing item is skipped
\* when a watermark exists, the item's date was parsed, and it is not newer.
\* Both date forms of the catalogue parse ('YYYY-MM-DD' from data-time, or the
\* display text 'Jan 5, 2025').
SkipListingItem(latest, li) ==
    /\ latest # NoDate
    /\ li.date.t \in {"str", "raw"}
    /\ li.date.day <= latest.day

\* Bounds and upstream responses of the fetch specification.  A news API
\* answers with no item or with one item of any day of the catalogue up to
\* the current day, whatever window was asked for.
\* A key that the JSON object of an upstream item does not have, and a
\* timestamp key that it does not have.
Absent == "<absent>"
AbsentTime == [t |-> "absent", day |-> 0]

\* A Unix timestamp within calendar day n.
UnixTime(n) == [t |-> "unix", day |-> n]

\* datetime.fromtimestamp(0): the day of the epoch, before every day of the model.
EPOCH_DAY == 0

T_NIFTY == "Nifty ends higher"
T_WORLD == "Fed holds rates"

\* `keyword in text.lower()` for some keyword of indian_keywords (lines
\* 359-360), as a table over the texts of this model.
HasIndianKeyword(text) == text \in {T_NIFTY, C_SHORT}

\* item.get(k, default)
ItemGet(item, k, default) == IF item[k] = Absent THEN default ELSE item[k]

\* Lines 382-389
is_indian_context(item) ==
    \/ HasIndianKeyword(ItemGet(item, "headline", ""))
    \/ HasIndianKeyword(ItemGet(item, "summary", ""))

\* Lines 382, 383 and 398: .lower() of a null headline or summary raises
\* AttributeError, datetime.fromtimestamp of a null timestamp raises TypeError.
FinnhubRaises(item) ==
    \/ item.headline = None
    \/ item.summary = None
    \/ is_indian_context(item) /\ item.datetime.t = "none"

\* Lines 394-403 on a JSON item: a missing key reads as None, a missing
\* timestamp as 0.
FinnhubItemPayload(item) ==
    FinnhubPayload([url |-> ItemGet(item, "url", None),
                    headline |-> ItemGet(item, "headline", None),
                    summary |-> ItemGet(item, "summary", None),
                    day |-> IF item.datetime.t = "absent" THEN EPOCH_DAY
                            ELSE item.datetime.day])

\* num_articles_limit as the main block passes it (lines 790 and 801).
NEWS_LIMIT == 20

RECURSIVE FinnhubBatch(_, _, _)
\* Lines 381-417 and 427-428: the loop over news_items.  An exception raised
\* for an item is caught outside the loop, which ends there.
FinnhubBatch(coll, news_items, processed_count) ==
    IF news_items = <<>> THEN coll
    ELSE IF FinnhubRaises(Head(news_items)) THEN coll
    ELSE IF ~is_indian_context(Head(news_items))
            \/ ~HasCrucialData(FinnhubItemPayload(Head(news_items)))
         THEN FinnhubBatch(coll, Tail(news_items), processed_count)
    ELSE LET r == UpsertArticleResult(coll, FinnhubItemPayload(Head(news_items)))
             count == IF r.ret THEN processed_count + 1 ELSE processed_count
         IN IF count >= NEWS_LIMIT THEN r.coll
            ELSE FinnhubBatch(r.coll, Tail(news_items), count)

\* Lines 491-509 on a JSON item: a missing key reads as None.
MarketauxItemPayload(item) ==
    MarketauxPayload([url |-> ItemGet(item, "url", None),
                      title |-> ItemGet(item, "title", None),
                      description |-> ItemGet(item, "description", None),
                      published_at |-> IF item.published_at.t = "absent" THEN NoDate
                                       ELSE item.published_at])

RECURSIVE MarketauxBatch(_, _, _)
\* Lines 490-522: the loop over news_items.
MarketauxBatch(coll, news_items, processed_count) ==
    IF news_items = <<>> THEN coll
    ELSE IF ~HasCrucialData(MarketauxItemPayload(Head(news_items)))
         THEN MarketauxBatch(coll, Tail(news_items), processed_count)
    ELSE LET r == UpsertArticleResult(coll, MarketauxItemPayload(Head(news_items)))
             count == IF r.ret THEN processed_count + 1 ELSE processed_count
         IN IF count >= NEWS_LIMIT THEN r.coll
            ELSE MarketauxBatch(r.coll, Tail(news_items), count)

\* What an upstream request gave: the items of the response, or a
\* RequestException (connection error, timeout, HTTP error status).
Response(items) == [ok |-> TRUE, items |-> items]
RequestFailed == [ok |-> FALSE, items |-> <<>>]

\* fetch_news_from_finnhub(api_key, mongo_collection): the collection after
\* the call, and whether a request was sent.
fetch_news_from_finnhub(coll, now, outcome) ==
    LET plan == PlanNewsFetch(get_latest_news_date(coll, "Finnhub"), now)
    IN [coll |-> IF plan.skipped \/ ~outcome.ok THEN coll
                 ELSE FinnhubBatch(coll, outcome.items, 0),
        start |-> plan.start, sent |-> ~plan.skipped]

\* fetch_news_from_marketaux(api_key, mongo_collection)
fetch_news_from_marketaux(coll, now, outcome) ==
    LET plan == PlanNewsFetch(get_latest_news_date(coll, "Marketaux"), now)
    IN [coll |-> IF plan.skipped \/ ~outcome.ok THEN coll
                 ELSE MarketauxBatch(coll, outcome.items, 0),
        start |-> plan.start, sent |-> ~plan.skipped]

\* scrape_economic_times_headlines(mongo_collection): a listing page that
\* cannot be fetched is passed over (lines 215-217); the listing items that
\* pass the watermark test are written.
scrape_economic_times_headlines(coll, outcome) ==
    LET latest == get_latest_news_date(coll, "Economic Times")
        kept == SelectSeq(outcome.items, LAMBDA li : ~SkipListingItem(latest, li))
    IN [coll |-> IF ~outcome.ok THEN coll
                 ELSE IngestAll(coll, [i \in 1..Len(kept) |-> ETPayload(kept[i])]),
        written |-> {kept[i].date.day : i \in 1..Len(kept)}]

MaxToday == 2

PastDays(now) == {n \in Days : n <= now}

FinnhubResponses(now) ==
    {<<>>} \cup {<<[url |-> "f1", headline |-> T_NIFTY, summary |-> C_BANK,
                    datetime |-> UnixTime(n)]>> : n \in PastDays(now)}

MarketauxResponses(now) ==
    {<<>>} \cup {<<[url |-> "m1", title |-> "T1", description |-> C_BANK, published_at |-> d]>> :
                    d \in {IsoTimestamp(n) : n \in PastDays(now)} \cup {DateRaw(1), NoDate}}

ETListings(now) ==
    {<<>>} \cup {<<[url |-> "e1", title |-> "T1", date |-> d, page |-> PageFailed]>> :
                    d \in {DateStr(n) : n \in PastDays(now)} \cup {DateRaw(1)}}

\* yf.download(ticker, start, end): one row for each day from the start asked
\* for (the first day of the catalogue at the earliest) up to a day `upto`,
\* which is the current day or the day before, in ascending order; no row
\* when upto is before the start.
PriceRows(start, upto) ==
    LET lo == IF start < 1 THEN 1 ELSE start
    IN [i \in 1..(upto - lo + 1) |->
            [day |-> lo + i - 1, q |-> CHOOSE q \in Quotes : q.close = 100]]

\* The start_date_str a caller passes: five years back (the __main__ blocks),
\* or a day that is still to come.
StartDates(now) == {now - PRICE_DEFAULT_DAYS, now + 1}

\* fetch_news_from_finnhub with the response the request gets
FetchFinnhub ==
    \E resp \in FinnhubResponses(today) :
        LET result == fetch_news_from_finnhub(articles, today, Response(resp))
        IN /\ articles' = result.coll
           /\ fetch' = [fetcher |-> "Finnhub", key |-> "Finnhub",
                        dated |-> StoredNewsDays(articles, "Finnhub"),
                        start |-> result.start, sent |-> result.sent, written |-> {}]
           /\ UNCHANGED <<bars, last, raceVars, runVars, today, auxVars>>

\* fetch_news_from_marketaux with the response the request gets
FetchMarketaux ==
    \E resp \in MarketauxResponses(today) :
        LET result == fetch_news_from_marketaux(articles, today, Response(resp))
        IN /\ articles' = result.coll
           /\ fetch' = [fetcher |-> "Marketaux", key |-> "Marketaux",
                        dated |-> StoredNewsDays(articles, "Marketaux"),
                        start |-> result.start, sent |-> result.sent, written |-> {}]
           /\ UNCHANGED <<bars, last, raceVars, runVars, today, auxVars>>

\* scrape_economic_times_headlines: no date is sent upstream.
ScrapeEconomicTimes ==
    \E listing \in ETListings(today) :
        LET result == scrape_economic_times_headlines(articles, Response(listing))
        IN /\ articles' = result.coll
           /\ fetch' = [fetcher |-> "Economic Times", key |-> "Economic Times",
                        dated |-> StoredNewsDays(articles, "Economic Times"),
                        start |-> 0, sent |-> FALSE, written |-> result.written]
           /\ UNCHANGED <<bars, last, raceVars, runVars, today, auxVars>>

\* market_data_collector.fetch_historical_market_data for one ticker of the
\* list: plan, skip or download, and upsert every downloaded row.
FetchPrices(ticker) ==
    \E start_date \in StartDates(today), upto \in {today - 1, today} :
        LET latest == get_latest_market_data_date(bars, ticker)
            plan == PlanPriceFetch(latest, start_date, today)
            resp == PriceRows(plan.start, upto)
            recs == [i \in 1..Len(resp) |-> MarketRecord(ticker, resp[i].day, resp[i].q)]
        IN /\ bars' = IF plan.skipped THEN bars ELSE UpsertAllBars(bars, recs)
           /\ fetch' = [fetcher |-> "prices", key |-> ticker,
                        dated |-> StoredBarDays(bars, ticker),
                        start |-> plan.start, sent |-> ~plan.skipped, written |-> {}]
           /\ UNCHANGED <<articles, last, raceVars, runVars, today, auxVars>>

\* Midnight passes.
Tick ==
    /\ today < MaxToday
    /\ today' = today + 1
    /\ UNCHANGED <<articles, bars, last, raceVars, runVars, fetch, auxVars>>

FetchNext ==
    \/ FetchFinnhub
    \/ FetchMarketaux
    \/ ScrapeEconomicTimes
    \/ \E ticker \in Symbols : FetchPrices(ticker)
    \/ Tick

SpecFetch == Init /\ [][FetchNext]_vars


-----------------------------------------------------------------------------
(* Properties of the fetch planning *)

\* C7: no fetcher of price bars, Finnhub or Marketaux news sends upstream a
\* start date later than the current day; a fetch whose start date (the day
\* after the latest stored date, or the default) is in the future makes no
\* request.
C7_NoFutureStartSent ==
    (fetch.fetcher \in {"prices", "Finnhub", "Marketaux"} /\ fetch.sent)
        => fetch.start <= today

MaxOf(S) == CHOOSE x \in S : \A y \in S : y <= x

\* A Finnhub fetch planned from the day after the latest stored article, found
\* that day to be in the future, and sent nothing.
C7_Witness ==
    /\ fetch.fetcher = "Finnhub"
    /\ fetch.dated # {}
    /\ fetch.start = MaxOf(fetch.dated) + 1
    /\ fetch.start > today
    /\ ~fetch.sent

\* C8: when the store holds dated data for a symbol or a source, the fetch
\* window starts on the day after the maximum stored date of that key; the
\* Economic Times scraper writes no listing item dated on or before the
\* latest stored Economic Times date.
C8_WindowStartsAfterLatestStored ==
    fetch.dated # {} =>
        IF fetch.fetcher = "Economic Times"
        THEN \A n \in fetch.written : n > MaxOf(fetch.dated)
        ELSE fetch.start = MaxOf(fetch.dated) + 1


-----------------------------------------------------------------------------
(* Properties of the join, the indicators and the signal *)

\* The symbols of the sector-to-ticker mapping (lines 115-124).
MappedSymbols == {sector_to_ticker_mapping[sec] : sec \in DOMAIN sector_to_ticker_mapping}

\* The records of a run for the stored bar b.
RowsOfBar(records, b) ==
    {r \in records : r.symbol = b.symbol /\ CalendarDay(r.date) = CalendarDay(b.date)}

HasSummary(summaries, b) ==
    \E sm \in summaries : /\ sm.date = CalendarDay(b.date)
                          /\ sm.sector = ticker_to_sector_mapping(b.symbol)

\* C11: a run that computes emits exactly one insight row for every stored
\* bar of every mapped symbol, and the row of a (date, sector) without a
\* sentiment summary carries avg_sentiment 0.5 and num_articles 0.
C11_OneRowPerMappedBar ==
    [][RunComputes =>
        \A b \in bars : b.symbol \in MappedSymbols =>
            /\ Cardinality(RowsOfBar(grun'.records, b)) = 1
            /\ ~HasSummary(grun'.summaries, b) =>
                  \A r \in RowsOfBar(grun'.records, b) :
                      r.avg_sentiment = Frac(50, 100) /\ r.num_articles = 0]_vars

-----------------------------------------------------------------------------
(* The analytics run over a long price history *)

\* The closes of the downloaded history: a rise after the first day, a fall
\* after day 30 and another on day 50.
HistoryClose(d) ==
    IF d = 1 THEN 200 ELSE IF d <= 30 THEN 400 ELSE IF d < 50 THEN 200 ELSE 100

HistoryQuote(d) ==
    [open |-> HistoryClose(d), high |-> HistoryClose(d), low |-> HistoryClose(d),
     close |-> HistoryClose(d), volume |-> 1000]

\* The records fetch_historical_market_data upserts, oldest first: the
\* benchmark rows of days 1..m, then the Banking index rows of days 1..n.
HistoryBars(n, m) ==
    [i \in 1..(m + n) |->
        IF i <= m THEN MarketRecord("^NSEI", i, HistoryQuote(i))
        ELSE MarketRecord("^NSEBANK", i - m, HistoryQuote(i - m))]

\* The Market Bar Store after the upsert of each record of recs in turn, for
\* records of distinct (symbol, date): the i-th upsert inserts, with id i.
InsertedBars(recs) == {NewBar(i, recs[i]) : i \in DOMAIN recs}

\* One Finnhub article about Banking for each day of `days`, upserted in the
\* order of the days (the urls are distinct, so that each upsert inserts),
\* scored `score` by the sentiment step and tagged by the entity step.
HistoryNews(days, score) ==
    {LET p == FinnhubPayload([url |-> "n" \o ToString(day), headline |-> "T1",
                              summary |-> C_BANK, day |-> day])
         id == Cardinality({y \in days : y < day}) + 1
     IN EntitiesUpdate(SentimentUpdate(NewArticle(id, p.url, SetDocument(p)), score)) :
        day \in days}

\* The lengths of the histories: just above the beta threshold, one short
\* window, one long window.
HistoryLengths == {MIN_BETA_POINTS + 2, SMA_SHORT, SMA_LONG}

\* The days that have news: all of them, all but one, or the last alone.
HistoryCoverage(n) == {1..n, (1..n) \ {2}, {n}}

InitIndicators ==
    /\ \E n \in HistoryLengths :
          /\ \E m \in {n, MIN_BETA_POINTS + 1} : bars = InsertedBars(HistoryBars(n, m))
          /\ \E days \in HistoryCoverage(n), score \in {20, 80} :
                articles = HistoryNews(days, score)
    /\ insights = {}
    /\ last = NoOp
    /\ wpc = [w \in Writers |-> "idle"]
    /\ wreq = [w \in Writers |-> NoRequest]
    /\ wret = [w \in Writers |-> NoReturn]
    /\ gpc = "idle"
    /\ grun = NoRun
    /\ observed = NoObservation
    /\ today = StartDay
    /\ fetch = NoFetch
    /\ sig = NoSignal
    /\ pipe = NoPipeline
    /\ http = NoHttp

IndicatorsNext ==
    \/ GenerateBegin
    \/ GenerateDelete
    \/ GenerateInsert
    \/ Reader

SpecIndicators == InitIndicators /\ [][IndicatorsNext]_vars

\* The stored bars of the symbol of bar b up to and including b.
BarsUpTo(b) == {x \in bars : x.symbol = b.symbol /\ x.date.day <= b.date.day}

\* The mean of the closes of the last w stored bars of b's symbol up to b.
MeanOfCloses(b, w) ==
    LET window == {x \in BarsUpTo(b) :
                      Cardinality({y \in BarsUpTo(b) : y.date.day >= x.date.day}) <= w}
    IN Frac(SumOver(window, [x \in window |-> x.close]), w)

\* C12: on the insight row of the k-th stored bar of a symbol, sma_20 is
\* undefined for k < 20 and is the mean of the 20 closes for k = 20, sma_50
\* likewise with 50, and price_to_sma_50_ratio is undefined wherever sma_50 is.
C12_RollingMeansOverStoredBars ==
    [][RunComputes =>
        \A b \in bars : \A r \in RowsOfBar(grun'.records, b) :
            LET k == Cardinality(BarsUpTo(b)) IN
            /\ k < SMA_SHORT => IsNaN(r.sma_20)
            /\ k = SMA_SHORT => r.sma_20 = MeanOfCloses(b, SMA_SHORT)
            /\ k < SMA_LONG => IsNaN(r.sma_50)
            /\ k = SMA_LONG => r.sma_50 = MeanOfCloses(b, SMA_LONG)
            /\ IsNaN(r.sma_50) => IsNaN(r.price_to_sma_50_ratio)]_vars

\* The dates on which both the symbol and the benchmark have a daily return:
\* each has a bar of that date and an earlier bar.
PairedReturnDates(market, symbol) ==
    {b.date.day : b \in {x \in market :
        /\ x.symbol = symbol
        /\ \E p \in market : p.symbol = symbol /\ p.date.day < x.date.day
        /\ \E y \in market : y.symbol = "^NSEI" /\ y.date.day = x.date.day
        /\ \E q \in market : q.symbol = "^NSEI" /\ q.date.day < x.date.day}}

\* C13: the rows of a non-benchmark symbol with fewer than 20 date-aligned
\* paired return observations carry an undefined beta and are never Buy.
C13_FewPairedReturnsNoBeta ==
    [][RunComputes =>
        \A r \in grun'.records :
            (r.symbol # "^NSEI" /\ Cardinality(PairedReturnDates(bars, r.symbol)) < 20)
                => IsNaN(r.beta) /\ r.signal # "Buy"]_vars

-----------------------------------------------------------------------------
(* The Signal Classifier on arbitrary rows *)

Labels == {"Buy", "Sell", "Neutral"}

\* The rows generate_signal can be handed: each threshold from below, at the
\* boundary and from above, and each computed column undefined.
SignalRows ==
    [avg_sentiment : {Frac(30, 100), Frac(35, 100), Frac(50, 100), Frac(65, 100),
                      Frac(70, 100), NaN},
     close : {100},
     sma_20 : {Num(90), Num(100), Num(110), NaN},
     sma_50 : {Num(80), Num(100), Num(120), NaN},
     beta : {Num(1), Frac(105, 100), Frac(12, 10), NaN},
     price_to_sma_50_ratio : {Frac(90, 100), Frac(95, 100), Num(1), NaN}]

\* insights_df.apply(generate_signal, axis=1) on one row (line 177); sig keeps
\* the row and the labels of the calls made with it.
MaxSignalCalls == 2

Classify ==
    /\ Len(sig.labels) < MaxSignalCalls
    /\ sig' = [sig EXCEPT !.labels = Append(@, generate_signal(sig.row))]
    /\ UNCHANGED <<articles, bars, last, raceVars, runVars, fetchVars, pipe, http>>

\* The classifier specification: a row of SignalRows to classify, and stores
\* of one Banking article and one bar of the benchmark and of the Banking index.
InitSignal ==
    /\ articles = HistoryNews({1}, 80)
    /\ bars = InsertedBars(HistoryBars(1, 1))
    /\ insights = {}
    /\ last = NoOp
    /\ wpc = [w \in Writers |-> "idle"]
    /\ wreq = [w \in Writers |-> NoRequest]
    /\ wret = [w \in Writers |-> NoReturn]
    /\ gpc = "idle"
    /\ grun = NoRun
    /\ observed = NoObservation
    /\ today = StartDay
    /\ fetch = NoFetch
    /\ \E row \in SignalRows : sig = [row |-> row, labels |-> <<>>]
    /\ pipe = NoPipeline
    /\ http = NoHttp

SignalNext ==
    \/ Classify
    \/ GenerateBegin
    \/ GenerateDelete
    \/ GenerateInsert

SpecSignal == InitSignal /\ [][SignalNext]_vars

Called == sig.labels # <<>>

\* The Buy rule, with strict comparisons and the valuation gate.
BuyRule(row) ==
    /\ Gt(row.avg_sentiment, Frac(65, 100))
    /\ Gt(Num(row.close), row.sma_20)
    /\ Gt(row.sma_20, row.sma_50)
    /\ Lt(row.beta, Frac(105, 100))
    /\ Lt(row.price_to_sma_50_ratio, Frac(95, 100))

\* The Sell rule, with strict comparisons.
SellRule(row) ==
    /\ Lt(row.avg_sentiment, Frac(35, 100))
    /\ Lt(Num(row.close), row.sma_20)
    /\ Lt(row.sma_20, row.sma_50)

\* C14: generate_signal returns Buy exactly when avg_sentiment > 0.65,
\* close > sma_20, sma_20 > sma_50, beta < 1.05 and price_to_sma_50_ratio <
\* 0.95 all hold; at avg_sentiment = 0.65 or close = sma_20 it is not Buy.
C14_BuyExactlyOnBuyRule ==
    Called =>
        /\ \A i \in DOMAIN sig.labels : (sig.labels[i] = "Buy") <=> BuyRule(sig.row)
        /\ (sig.row.avg_sentiment = Frac(65, 100) \/ Num(sig.row.close) = sig.row.sma_20)
              => \A i \in DOMAIN sig.labels : sig.labels[i] # "Buy"

\* The classifier has returned Buy.
C14_Witness ==
    /\ Called
    /\ sig.labels[1] = "Buy"
    /\ sig.row.avg_sentiment = Frac(70, 100)
    /\ sig.row.sma_20 = Num(90)

\* C15: generate_signal returns Sell exactly when avg_sentiment < 0.35,
\* close < sma_20 and sma_20 < sma_50 all hold; no row satisfies both rules,
\* and a row that satisfies neither is Neutral.
C15_SellExactlyOnSellRule ==
    Called =>
        /\ \A i \in DOMAIN sig.labels :
              /\ (sig.labels[i] = "Sell") <=> SellRule(sig.row)
              /\ (~BuyRule(sig.row) /\ ~SellRule(sig.row)) => sig.labels[i] = "Neutral"
        /\ ~(BuyRule(sig.row) /\ SellRule(sig.row))

\* The classifier has returned Sell for a row whose valuation gate is open.
C15_Witness ==
    /\ Called
    /\ sig.labels[1] = "Sell"
    /\ sig.row.beta = Num(1)
    /\ sig.row.price_to_sma_50_ratio = Frac(90, 100)

\* C16: a row with any of sma_20, sma_50, beta, price_to_sma_50_ratio or
\* avg_sentiment undefined is classified Neutral, in every record set a run
\* computes.
C16_AnyUndefinedIsNeutral ==
    \A r \in grun.records :
        (\E c \in {"sma_20", "sma_50", "beta", "price_to_sma_50_ratio", "avg_sentiment"} :
            IsNaN(r[c]))
            => r.signal = "Neutral"

-----------------------------------------------------------------------------
(* One run of a main block: database_manager.py or market_data_collector.py *)

\* database_manager.fetch_historical_market_data lines 706-716: the record of
\* one downloaded row holds a datetime.date.
DateOnly(n) == [t |-> "date", day |-> n]

DbmMarketRecord(ticker, day, q) ==
    [MarketRecord(ticker, day, q) EXCEPT !.date = DateOnly(day)]

\* pymongo encodes a datetime.datetime and no datetime.date: update_one raises
\* InvalidDocument for such a record, and the handler of the row catches it.
BsonEncodable(rec) == rec.date.t # "date"

\* What yf.download gave for one ticker: rows up to the day `upto`, or an
\* exception.
PriceOutcomes(now) ==
    {[ok |-> FALSE, upto |-> now]} \cup {[ok |-> TRUE, upto |-> u] : u \in {now - 1, now}}

\* One pass of the ticker loop of fetch_historical_market_data: `module` is
\* the file whose function runs.
FetchTicker(coll, module, ticker, now, outcome) ==
    LET plan == PlanPriceFetch(get_latest_market_data_date(coll, ticker),
                               now - PRICE_DEFAULT_DAYS, now)
        resp == PriceRows(plan.start, outcome.upto)
        recs == [i \in 1..Len(resp) |->
                    IF module = "market_data_collector"
                    THEN MarketRecord(ticker, resp[i].day, resp[i].q)
                    ELSE DbmMarketRecord(ticker, resp[i].day, resp[i].q)]
    IN [coll |-> IF plan.skipped \/ ~outcome.ok THEN coll
                 ELSE UpsertAllBars(coll, SelectSeq(recs, BsonEncodable)),
        sent |-> ~plan.skipped]

\* nifty_index_tickers, two of them.
TickerList == <<"^NSEI", "^NSEBANK">>

NewsSources == {"Economic Times", "Finnhub", "Marketaux"}

\* The batches an upstream news API answers with: a first item that is
\* well-formed or lacks a field (null or missing), then a well-formed item.
FinnhubFirstItems(now) ==
    LET good == [url |-> "f1", headline |-> T_NIFTY, summary |-> C_BANK,
                 datetime |-> UnixTime(now)]
    IN {good,
        [good EXCEPT !.headline = None], [good EXCEPT !.headline = Absent],
        [good EXCEPT !.summary = None], [good EXCEPT !.url = None],
        [good EXCEPT !.datetime = NoDate], [good EXCEPT !.datetime = AbsentTime],
        [good EXCEPT !.headline = T_WORLD]}

FinnhubBatches(now) ==
    {<<first, [url |-> "f2", headline |-> T_NIFTY, summary |-> C_BANKAUTO,
               datetime |-> UnixTime(now)]>> : first \in FinnhubFirstItems(now)}

MarketauxFirstItems(now) ==
    LET good == [url |-> "m1", title |-> "T1", description |-> C_BANK,
                 published_at |-> IsoTimestamp(now)]
    IN {good,
        [good EXCEPT !.title = None], [good EXCEPT !.url = Absent],
        [good EXCEPT !.published_at = NoDate],
        [good EXCEPT !.published_at = AbsentTime]}

MarketauxBatches(now) ==
    {<<first, [url |-> "m2", title |-> "T1", description |-> C_BANKAUTO,
               published_at |-> IsoTimestamp(now)]>> : first \in MarketauxFirstItems(now)}

PipelineListings(now) ==
    {<<[url |-> "e1", title |-> "T1", date |-> DateStr(now), page |-> PageFailed]>>}

\* What the stores hold when the run starts: nothing, or one article of each
\* source and one bar of each ticker, of the first day.
StoredArticles ==
    IngestAll({}, <<FinnhubPayload([url |-> "f0", headline |-> T_NIFTY, summary |-> C_BANK,
                                    day |-> StartDay]),
                    MarketauxPayload([url |-> "m0", title |-> "T1", description |-> C_BANK,
                                      published_at |-> IsoTimestamp(StartDay)]),
                    ETPayload([url |-> "e0", title |-> "T1", date |-> DateStr(StartDay),
                               page |-> PageFailed])>>)

StoredBars ==
    UpsertAllBars({}, [i \in 1..Len(TickerList) |->
                          MarketRecord(TickerList[i], StartDay,
                                       CHOOSE q \in Quotes : q.close = 100)])

InitPipeline ==
    /\ articles \in {{}, StoredArticles}
    /\ bars \in {{}, StoredBars}
    /\ insights = {}
    /\ last = NoOp
    /\ wpc = [w \in Writers |-> "idle"]
    /\ wreq = [w \in Writers |-> NoRequest]
    /\ wret = [w \in Writers |-> NoReturn]
    /\ gpc = "idle"
    /\ grun = NoRun
    /\ observed = NoObservation
    /\ today = MaxToday
    /\ fetch = NoFetch
    /\ sig = NoSignal
    /\ pipe = NoPipeline
    /\ http = NoHttp

\* A variant of the gate that looks at the Article Store connection alone.
NewsConnectedOnly(news_collection, market_collection) == news_collection

\* Line 770: `mongo_news_collection is not None and
\* mongo_market_data_collection is not None`.
AllConnected(news_collection, market_collection) == news_collection /\ market_collection

\* A variant in which a failed request ends the run.
AbortOnFailure(outcome, next) == IF outcome.ok THEN next ELSE "crashed"

\* The stage after a fetcher has returned: the fetchers catch the exceptions
\* of their requests (lines 92, 421-428, 526-531, 744), so the main block
\* goes on to its next statement whatever the outcome.
AfterFetch(outcome, next) == next

\* What a run has done so far, beside its effect on the stores.
Progress(stage, outcome, key, sent) ==
    [pipe EXCEPT !.stage = stage,
                 !.attempted = @ \cup {key},
                 !.failed = IF outcome.ok THEN @ ELSE @ \cup {key},
                 !.requests = IF sent THEN @ \cup {key} ELSE @]

\* database_manager.py lines 752-771 and 845-846: the API keys are checked,
\* both collections are connected, and the run goes on or aborts.
PipelineStart ==
    /\ pipe.stage = "none"
    /\ \E keys \in BOOLEAN, news_collection \in BOOLEAN, market_collection \in BOOLEAN :
          pipe' = [pipe EXCEPT
                     !.module = "database_manager",
                     !.stage = IF ~keys THEN "exited"
                               ELSE IF AllConnected(news_collection, market_collection)
                               THEN "scrape" ELSE "aborted",
                     !.news = keys /\ news_collection,
                     !.market = keys /\ market_collection,
                     !.pre_articles = articles,
                     !.pre_bars = bars,
                     !.tickers = TickerList]
    /\ UNCHANGED <<articles, bars, last, raceVars, runVars, fetchVars, sig, http>>

\* market_data_collector.py lines 197-230: the main block of the collector.
CollectorStart ==
    /\ pipe.stage = "none"
    /\ \E market_collection \in BOOLEAN :
          pipe' = [pipe EXCEPT
                     !.module = "market_data_collector",
                     !.stage = IF market_collection THEN "prices" ELSE "aborted",
                     !.market = market_collection,
                     !.pre_articles = articles,
                     !.pre_bars = bars,
                     !.tickers = TickerList]
    /\ UNCHANGED <<articles, bars, last, raceVars, runVars, fetchVars, sig, http>>

\* Lines 776-784
ScrapeStage ==
    /\ pipe.stage = "scrape"
    /\ \E outcome \in {RequestFailed} \cup {Response(l) : l \in PipelineListings(today)} :
          /\ articles' = scrape_economic_times_headlines(articles, outcome).coll
          /\ pipe' = Progress(AfterFetch(outcome, "finnhub"), outcome, "Economic Times", TRUE)
    /\ UNCHANGED <<bars, last, raceVars, runVars, fetchVars, sig, http>>

\* Lines 786-795
FinnhubStage ==
    /\ pipe.stage = "finnhub"
    /\ \E outcome \in {RequestFailed} \cup {Response(b) : b \in FinnhubBatches(today)} :
          LET result == fetch_news_from_finnhub(articles, today, outcome)
          IN /\ articles' = result.coll
             /\ pipe' = [Progress(AfterFetch(outcome, "marketaux"), outcome, "Finnhub",
                                  result.sent)
                           EXCEPT !.batch["Finnhub"] = IF result.sent THEN outcome.items
                                                       ELSE <<>>]
    /\ UNCHANGED <<bars, last, raceVars, runVars, fetchVars, sig, http>>

\* Lines 797-806
MarketauxStage ==
    /\ pipe.stage = "marketaux"
    /\ \E outcome \in {RequestFailed} \cup {Response(b) : b \in MarketauxBatches(today)} :
          LET result == fetch_news_from_marketaux(articles, today, outcome)
          IN /\ articles' = result.coll
             /\ pipe' = [Progress(AfterFetch(outcome, "sentiment"), outcome, "Marketaux",
                                  result.sent)
                           EXCEPT !.batch["Marketaux"] = IF result.sent THEN outcome.items
                                                         ELSE <<>>]
    /\ UNCHANGED <<bars, last, raceVars, runVars, fetchVars, sig, http>>

\* Lines 808-810: every article the model scores gets the same score, or the
\* model returns None for all.
SentimentStage ==
    /\ pipe.stage = "sentiment"
    /\ \E score \in {80, NoScore} :
          articles' = {SentimentUpdate(d, score) : d \in articles}
    /\ pipe' = [pipe EXCEPT !.stage = "entities"]
    /\ UNCHANGED <<bars, last, raceVars, runVars, fetchVars, sig, http>>

\* Lines 812-813
EntitiesStage ==
    /\ pipe.stage = "entities"
    /\ articles' = {EntitiesUpdate(d) : d \in articles}
    /\ pipe' = [pipe EXCEPT !.stage = "prices"]
    /\ UNCHANGED <<bars, last, raceVars, runVars, fetchVars, sig, http>>

\* Lines 815-843 of database_manager.py, lines 203-226 of
\* market_data_collector.py: one pass of the ticker loop; the main block ends
\* after the last ticker.
PriceStage ==
    /\ pipe.stage = "prices"
    /\ pipe.tickers # <<>>
    /\ \E outcome \in PriceOutcomes(today) :
          LET ticker == Head(pipe.tickers)
              result == FetchTicker(bars, pipe.module, ticker, today, outcome)
              next == IF Tail(pipe.tickers) = <<>> THEN "done" ELSE "prices"
          IN /\ bars' = result.coll
             /\ pipe' = [Progress(AfterFetch(outcome, next), outcome, ticker, result.sent)
                           EXCEPT !.tickers = Tail(pipe.tickers)]
    /\ UNCHANGED <<articles, last, raceVars, runVars, fetchVars, sig, http>>

PipelineNext ==
    \/ PipelineStart
    \/ CollectorStart
    \/ ScrapeStage
    \/ FinnhubStage
    \/ MarketauxStage
    \/ SentimentStage
    \/ EntitiesStage
    \/ PriceStage

SpecPipeline == InitPipeline /\ [][PipelineNext]_vars

-----------------------------------------------------------------------------
(* Properties of a run whose requests or connections fail *)

\* The keys a main block fetches for: the news sources and the tickers.
RunKeys(module) ==
    IF module = "database_manager"
    THEN NewsSources \cup {TickerList[i] : i \in DOMAIN TickerList}
    ELSE {TickerList[i] : i \in DOMAIN TickerList}

\* What the stores hold for one key, the enrichment fields left aside.
KeyRecords(as, bs, key) ==
    IF key \in NewsSources
    THEN {<<d.url, d.publication_date>> : d \in {x \in as : x.source = key}}
    ELSE {<<b.date, b.close>> : b \in {x \in bs : x.symbol = key}}

Watermark(as, bs, key) ==
    IF key \in NewsSources THEN get_latest_news_date(as, key)
    ELSE get_latest_market_data_date(bs, key)

C18_WitnessTicker ==
    /\ pipe.stage = "done"
    /\ pipe.module = "market_data_collector"
    /\ TickerList[1] \in pipe.failed
    /\ pipe.pre_bars # {}
    /\ KeyRecords(articles, bars, TickerList[2]) # KeyRecords(articles, pipe.pre_bars, TickerList[2])

FieldMissing(v) == v \in {None, Absent}

TimeMissing(t) == t.t \in {"none", "absent"}

\* An item of a fetched batch that lacks its url, its title or headline, its
\* content or summary, or its timestamp.
MalformedItem(source, item) ==
    \/ FieldMissing(item.url)
    \/ IF source = "Finnhub"
       THEN \/ FieldMissing(item.headline)
            \/ FieldMissing(item.summary)
            \/ TimeMissing(item.datetime)
       ELSE \/ FieldMissing(item.title)
            \/ FieldMissing(item.description)
            \/ TimeMissing(item.published_at)

\* An item the fetcher is to store: it lacks nothing, and a Finnhub item
\* passes the Indian-context filter.
WellFormedItem(source, item) ==
    /\ ~MalformedItem(source, item)
    /\ source = "Finnhub" => is_indian_context(item)

StoredUrl(url) == \E d \in articles : d.url = url

\* C19: of a fetched news batch, an item that lacks its url, title/headline,
\* content/summary or timestamp is not stored, and every well-formed item of
\* the same batch is stored: the bad item does not end the batch.
C19_MalformedSkippedOthersStored ==
    \A source \in DOMAIN pipe.batch :
       \A i \in DOMAIN pipe.batch[source] :
          LET item == pipe.batch[source][i]
          IN /\ MalformedItem(source, item) => ~StoredUrl(item.url)
             /\ WellFormedItem(source, item) => StoredUrl(item.url)

\* A connection the main block needs has failed: connect_to_mongodb or
\* connect_to_market_data_mongodb has returned None.
ConnectionFailed ==
    /\ pipe.stage \notin {"none", "exited"}
    /\ \/ pipe.module = "database_manager" /\ (~pipe.news \/ ~pipe.market)
       \/ pipe.module = "market_data_collector" /\ ~pipe.market

-----------------------------------------------------------------------------
(* The analytics run over one trading day *)

\* A Finnhub article with the given summary and day, inserted with the given
\* id, then scored by the sentiment step and tagged by the entity step.
TaggedArticle(id, url, summary, day, score) ==
    LET p == FinnhubPayload([url |-> url, headline |-> "T1", summary |-> summary, day |-> day])
    IN EntitiesUpdate(SentimentUpdate(NewArticle(id, p.url, SetDocument(p)), score))

\* What the stores hold beside the one bar and the one article of the day: a
\* bar of the benchmark, an article about a sector that has no index, an
\* article about the same sector on another day.
OneDayExtras ==
    {"none", "benchmark", "energy", "benchmark and energy", "other day", "unmapped only"}

OneDayBars(day, q, extra) ==
    IF extra = "unmapped only" THEN <<MarketRecord("^NSEI", day, q)>>
    ELSE <<MarketRecord("^NSEBANK", day, q)>>
            \o (IF extra \in {"benchmark", "benchmark and energy"}
                THEN <<MarketRecord("^NSEI", day, q)>> ELSE <<>>)

OneDayNews(day, score, extra) ==
    IF extra = "unmapped only" THEN {TaggedArticle(1, "n1", C_ENERGY, day, score)}
    ELSE
    {TaggedArticle(1, "n1", C_BANK, day, score)}
        \cup (IF extra \in {"energy", "benchmark and energy"}
              THEN {TaggedArticle(2, "n2", C_ENERGY, day, score)} ELSE {})
        \cup (IF extra = "other day"
              THEN {TaggedArticle(2, "n2", C_BANK, day + 1, score)} ELSE {})

InitOneDay ==
    /\ \E day \in {1, 2}, q \in Quotes, score \in {40, 70}, extra \in OneDayExtras :
          /\ bars = InsertedBars(OneDayBars(day, q, extra))
          /\ articles = OneDayNews(day, score, extra)
    /\ insights = {}
    /\ last = NoOp
    /\ wpc = [w \in Writers |-> "idle"]
    /\ wreq = [w \in Writers |-> NoRequest]
    /\ wret = [w \in Writers |-> NoReturn]
    /\ gpc = "idle"
    /\ grun = NoRun
    /\ observed = NoObservation
    /\ today = StartDay
    /\ fetch = NoFetch
    /\ sig = NoSignal
    /\ pipe = NoPipeline
    /\ http = NoHttp

OneDayNext ==
    \/ GenerateBegin
    \/ GenerateDelete
    \/ GenerateInsert
    \/ Reader

SpecOneDay == InitOneDay /\ [][OneDayNext]_vars

\* C21: with exactly one stored bar, of a mapped index symbol and close 100,
\* and exactly one article, scored 0.7, of the same date and tagged with the
\* sector of that symbol, a run that stores its records leaves exactly one
\* insight record, of that date and sector, with avg_sentiment 0.7, close
\* 100, sma_20 and sma_50 undefined and the signal Neutral.
C21_OneBarOneArticleOneNeutralInsight ==
    \A b \in bars, a \in articles :
       (/\ bars = {b} /\ articles = {a}
        /\ b.symbol \in MappedSymbols /\ b.close = 100
        /\ a.sentiment_score = 70
        /\ CalendarDay(a.publication_date) = CalendarDay(b.date)
        /\ a.sectors_mentioned = {ticker_to_sector_mapping(b.symbol)}
        /\ grun.result = "stored")
       => /\ Cardinality(insights) = 1
          /\ \A r \in insights :
                /\ r.date = b.date
                /\ r.sector = ticker_to_sector_mapping(b.symbol)
                /\ r.symbol = b.symbol
                /\ r.avg_sentiment = Frac(7, 10)
                /\ r.num_articles = 1
                /\ r.close = 100
                /\ IsNaN(r.sma_20) /\ IsNaN(r.sma_50)
                /\ r.signal = "Neutral"

\* The second run over one bar of close 100 and one article scored 0.7 has
\* stored its record.
C21_Witness ==
    /\ Cardinality(bars) = 1 /\ Cardinality(articles) = 1
    /\ \A b \in bars : b.symbol = "^NSEBANK" /\ b.close = 100
    /\ \A a \in articles : a.sentiment_score = 70 /\ a.sectors_mentioned = {BANKING}
    /\ grun.result = "stored"
    /\ grun.run = 2
    /\ Cardinality(insights) = 1

-----------------------------------------------------------------------------
(* The frame of the enrichment updates (SpecStore) *)

\* The article the sentiment pass scores, and the one the entity pass tags.
SentimentTarget(d) == NeedsSentiment(d) /\ ~TooShortForSentiment(d)
EntitiesTarget(d) == NeedsEntities(d) /\ ~TooShortForEntities(d)

SameIngestedFields(d, e) ==
    /\ e.title = d.title
    /\ e.content = d.content
    /\ e.publication_date = d.publication_date
    /\ e.source = d.source
    /\ e.url = d.url

\* C22: a pass of process_and_update_sentiment or process_and_update_entities
\* changes only enrichment fields, and only of the articles it targets: the
\* title, content, publication_date, source and url of every article are
\* unchanged, an article that is no target is unchanged in every field, the
\* number of articles is unchanged, and an article that has a sentiment_score
\* keeps it.
C22_EnrichmentChangesOnlyEnrichmentFields ==
    [][last'.op \in {"sentiment", "entities"} =>
          /\ Cardinality(articles') = Cardinality(articles)
          /\ \A d \in articles :
                \E e \in articles' :
                   /\ e.id = d.id
                   /\ SameIngestedFields(d, e)
                   /\ d.sentiment_score # NoScore => e.sentiment_score = d.sentiment_score
                   /\ last'.op = "sentiment" =>
                         /\ e.companies_mentioned = d.companies_mentioned
                         /\ e.sectors_mentioned = d.sectors_mentioned
                         /\ ~SentimentTarget(d) => e = d
                   /\ last'.op = "entities" =>
                         /\ e.sentiment_score = d.sentiment_score
                         /\ ~EntitiesTarget(d) => e = d]_vars

\* A sentiment pass has just changed the store, which holds a scored and
\* tagged article and an article the pass left unscored.
C22_Witness ==
    /\ last.op = "sentiment"
    /\ last.changed
    /\ \E d \in articles : d.sentiment_score # NoScore /\ d.sectors_mentioned # {}
    /\ \E d \in articles : d.sentiment_score = NoScore

-----------------------------------------------------------------------------
(* Incremental price fetch runs with revised upstream quotes *)

\* yf.download(ticker, start, end) when upstream quotes the asked days with
\* q: the rows of PriceRows, each with the quote q.
QuotedPriceRows(start, upto, q) ==
    [i \in DOMAIN PriceRows(start, upto) |-> [day |-> PriceRows(start, upto)[i].day, q |-> q]]

\* One pass of the ticker loop of fetch_historical_market_data, as FetchTicker,
\* over the rows upstream quotes with q.
FetchQuotedTicker(coll, module, ticker, now, outcome, q) ==
    LET plan == PlanPriceFetch(get_latest_market_data_date(coll, ticker),
                               now - PRICE_DEFAULT_DAYS, now)
        resp == QuotedPriceRows(plan.start, outcome.upto, q)
        recs == [i \in 1..Len(resp) |->
                    IF module = "market_data_collector"
                    THEN MarketRecord(ticker, resp[i].day, resp[i].q)
                    ELSE DbmMarketRecord(ticker, resp[i].day, resp[i].q)]
    IN IF plan.skipped \/ ~outcome.ok THEN coll
       ELSE UpsertAllBars(coll, SelectSeq(recs, BsonEncodable))

RECURSIVE FetchAllTickers(_, _, _, _, _)
\* fetch_historical_market_data(tickers, start, end, collection): the loop
\* over the tickers; answers[ticker] is what upstream does for that ticker.
FetchAllTickers(coll, module, tickers, now, answers) ==
    IF tickers = <<>> THEN coll
    ELSE FetchAllTickers(
             FetchQuotedTicker(coll, module, Head(tickers), now,
                               answers[Head(tickers)].outcome, answers[Head(tickers)].q),
             module, Tail(tickers), now, answers)

PriceAnswers(now) ==
    [{TickerList[i] : i \in DOMAIN TickerList} -> [outcome : PriceOutcomes(now), q : Quotes]]

\* A run of the price fetch of one of the two modules.
FetchHistoricalMarketData ==
    /\ \E module \in {"market_data_collector", "database_manager"},
          answers \in PriceAnswers(today) :
          bars' = FetchAllTickers(bars, module, TickerList, today, answers)
    /\ UNCHANGED <<articles, last, raceVars, runVars, fetchVars, auxVars>>

PricesNext ==
    \/ FetchHistoricalMarketData
    \/ Tick

SpecPrices == Init /\ [][PricesNext]_vars

\* C23: over any sequence of price fetch runs, a bar that is stored when a run
\* starts, of a date on or before the latest stored date of its symbol, is in
\* the store unmodified when the run ends.
C23_StoredBarsNeverModified ==
    [][\A b \in bars :
          (/\ get_latest_market_data_date(bars, b.symbol) # NoDate
           /\ b.date.day <= get_latest_market_data_date(bars, b.symbol).day)
          => b \in bars']_vars

\* After a second run, the store holds for one symbol a bar of the first day
\* and a bar of the second day that upstream quoted differently.
C23_Witness ==
    /\ today = 2
    /\ \E b, c \in bars :
          /\ b.symbol = c.symbol
          /\ b.date.day = 1 /\ c.date.day = 2
          /\ b.close # c.close

-----------------------------------------------------------------------------
(* Symbols without a sector and sectors without a symbol (SpecOneDay) *)

\* C24: a bar whose symbol has no sector (the benchmark ^NSEI) and a sentiment
\* summary whose sector has no ticker (Energy) give no insight row and no
\* error: no run raises, every computed or stored row is of a mapped symbol
\* and of the sector of that symbol, and a run over such bars and summaries
\* alone computes nothing; the two directions of the resolver are inverse.
C24_UnmappedDroppedResolverInverse ==
    /\ grun.result # "raised"
    /\ \A r \in grun.records \cup insights :
          /\ r.symbol \in MappedSymbols
          /\ r.sector \in DOMAIN sector_to_ticker_mapping
          /\ sector_to_ticker_mapping[r.sector] = r.symbol
    /\ (/\ grun.run > 0
        /\ \A b \in bars : b.symbol \notin MappedSymbols
        /\ \A sm \in grun.summaries : sm.sector \notin DOMAIN sector_to_ticker_mapping)
       => grun.records = {} /\ grun.result = "no_match" /\ insights = {}
    /\ \A sec \in DOMAIN sector_to_ticker_mapping :
          ticker_to_sector_mapping(sector_to_ticker_mapping[sec]) = sec
    /\ \A symbol \in MappedSymbols :
          sector_to_ticker_mapping[ticker_to_sector_mapping(symbol)] = symbol

\* A run has stored one record while the stores hold a benchmark bar and a
\* scored article about Energy of the same day.
C24_Witness ==
    /\ grun.result = "stored"
    /\ \E b \in bars : b.symbol = "^NSEI"
    /\ \E sm \in grun.summaries : sm.sector = ENERGY
    /\ Cardinality(insights) = 1

\* A run over a benchmark bar and an Energy article alone has found no match.
C24_WitnessUnmappedOnly ==
    /\ grun.run > 0
    /\ grun.result = "no_match"
    /\ \A b \in bars : b.symbol = "^NSEI"
    /\ \E sm \in grun.summaries : sm.sector = ENERGY

-----------------------------------------------------------------------------
(* The analytics run over stores that return their bars in other orders *)

\* The days 1..n in the order the store returns the rows of one symbol:
\* ascending, the first two exchanged, or descending.
StoreOrders == {"ascending", "exchanged", "descending"}

DayAt(n, order, i) ==
    CASE order = "ascending" -> i
      [] order = "exchanged" -> IF i = 1 THEN 2 ELSE IF i = 2 THEN 1 ELSE i
      [] order = "descending" -> n + 1 - i

\* The benchmark closes: those of the sector index, or the same close on
\* every day.
BenchmarkQuote(d, flat) == IF flat THEN HistoryQuote(1) ELSE HistoryQuote(d)

\* n days of the benchmark, returned in the order `order`, then n days of the
\* Banking index in ascending order.
OrderedBars(n, order, flat) ==
    [i \in 1..(2 * n) |->
        IF i <= n
        THEN MarketRecord("^NSEI", DayAt(n, order, i), BenchmarkQuote(DayAt(n, order, i), flat))
        ELSE MarketRecord("^NSEBANK", i - n, HistoryQuote(i - n))]

InitOrder ==
    /\ \E n \in {MIN_BETA_POINTS + 2, MIN_BETA_POINTS + 3}, order \in StoreOrders,
          flat \in BOOLEAN :
          bars = InsertedBars(OrderedBars(n, order, flat))
    /\ \E score \in {20, 80} : articles = HistoryNews(1..(MIN_BETA_POINTS + 2), score)
    /\ insights = {}
    /\ last = NoOp
    /\ wpc = [w \in Writers |-> "idle"]
    /\ wreq = [w \in Writers |-> NoRequest]
    /\ wret = [w \in Writers |-> NoReturn]
    /\ gpc = "idle"
    /\ grun = NoRun
    /\ observed = NoObservation
    /\ today = StartDay
    /\ fetch = NoFetch
    /\ sig = NoSignal
    /\ pipe = NoPipeline
    /\ http = NoHttp

OrderNext ==
    \/ GenerateBegin
    \/ GenerateDelete
    \/ GenerateInsert
    \/ Reader

SpecOrder == InitOrder /\ [][OrderNext]_vars

\* The position of the bar b when the bars are put in ascending date order.
RankByDate(market, b) ==
    Cardinality({x \in market : \/ x.date.day < b.date.day
                                \/ x.date.day = b.date.day /\ x.id < b.id}) + 1

\* The same bars, returned by the store in ascending date order.
DateOrdered(market) == {[b EXCEPT !.id = RankByDate(market, b)] : b \in market}

\* C25: whatever order the store returns the bars in, the indicators of a run
\* (sma_20, sma_50, and the beta with the daily returns it is made of) are
\* those computed over each symbol's rows in ascending date order.
C25_IndicatorsOverAscendingDates ==
    grun.result # "none" =>
       grun.records = InsightRecords(grun.summaries, DateOrdered(bars))

-----------------------------------------------------------------------------
(* get_html_content: the retry loop *)

\* retries=3 in the signature; every caller leaves the default.
DEFAULT_RETRIES == 3

\* The largest `retries` a call is made with.
MaxRetries == 3

\* The pages the scraper asks for: listing pages and article pages.
HtmlUrls == {"listing page 1", "listing page 2", "article"}

\* response.content of a successful request.
HtmlContent == "<html>"

\* A variant that sleeps after every failed attempt.
SleepsAfterEveryFailure(i, retries) == TRUE

\* Line 93: `if i < retries - 1`, the test that sends a failed attempt to
\* time.sleep(delay) and the next iteration.
SleepsBeforeRetry(i, retries) == i < retries - 1

\* Lines 80-85: the call, before the first iteration of `for i in range(retries)`.
GetHtmlCall ==
    /\ http.pc \in {"idle", "returned"}
    /\ http.calls < MaxCalls
    /\ \E url \in HtmlUrls, retries \in 0..MaxRetries :
          http' = [pc |-> "loop", calls |-> http.calls + 1, url |-> url, retries |-> retries,
                   i |-> 0, log |-> <<>>, sleeps |-> 0, ret |-> None]
    /\ UNCHANGED <<articles, bars, last, raceVars, runVars, fetchVars, sig, pipe>>

\* Lines 86-98: one iteration up to its return or its sleep.  requests.get and
\* raise_for_status succeed, or raise a RequestException (connection error,
\* timeout, HTTP error status).
GetHtmlRequest ==
    /\ http.pc = "loop"
    /\ http.i < http.retries
    /\ \E outcome \in {"ok", "RequestException"} :
          http' = [http EXCEPT
                     !.log = Append(@, outcome),
                     !.pc = IF outcome = "ok" THEN "returned"
                            ELSE IF SleepsBeforeRetry(http.i, http.retries) THEN "sleep"
                            ELSE "returned",
                     !.ret = IF outcome = "ok" THEN HtmlContent ELSE None]
    /\ UNCHANGED <<articles, bars, last, raceVars, runVars, fetchVars, sig, pipe>>

\* Line 95 and the next value of i: time.sleep(delay) returns.
GetHtmlSleep ==
    /\ http.pc = "sleep"
    /\ http' = [http EXCEPT !.pc = "loop", !.sleeps = @ + 1, !.i = @ + 1]
    /\ UNCHANGED <<articles, bars, last, raceVars, runVars, fetchVars, sig, pipe>>

\* Line 99: the range is exhausted and the function returns None.
GetHtmlLoopEnd ==
    /\ http.pc = "loop"
    /\ http.i >= http.retries
    /\ http' = [http EXCEPT !.pc = "returned", !.ret = None]
    /\ UNCHANGED <<articles, bars, last, raceVars, runVars, fetchVars, sig, pipe>>

HtmlNext ==
    \/ GetHtmlCall
    \/ GetHtmlRequest
    \/ GetHtmlSleep
    \/ GetHtmlLoopEnd

SpecHtml == Init /\ [][HtmlNext]_vars

\* The call is never suspended for good: a request is answered or times out
\* (timeout=10), and a sleep ends.
SpecHtmlLive ==
    /\ SpecHtml
    /\ WF_vars(GetHtmlRequest)
    /\ WF_vars(GetHtmlSleep)
    /\ WF_vars(GetHtmlLoopEnd)

Failures(log) == Cardinality({k \in DOMAIN log : log[k] = "RequestException"})

\* What a call of get_html_content has done when it returns.
HtmlSafety ==
    /\ Len(http.log) <= http.retries
    /\ \A k \in DOMAIN http.log : http.log[k] = "ok" => k = Len(http.log)
    /\ http.pc = "returned" =>
          /\ http.ret = HtmlContent <=>
                (http.log # <<>> /\ http.log[Len(http.log)] = "ok")
          /\ http.ret = None <=>
                (Len(http.log) = http.retries /\ Failures(http.log) = http.retries)
          /\ http.ret \in {HtmlContent, None}
    /\ http.sleeps = IF http.pc = "returned" /\ http.ret = None /\ http.retries > 0
                     THEN http.retries - 1
                     ELSE IF http.pc = "loop" THEN Failures(http.log)
                     ELSE IF http.pc = "sleep" THEN Failures(http.log) - 1
                     ELSE Len(http.log) - 1 + (IF http.log = <<>> THEN 1 ELSE 0)

\* C26: get_html_content always terminates; it sends at most `retries`
\* requests, returns the content on the first success without a further
\* request, returns None when the last attempt has failed, and sleeps after a
\* failed attempt that is not the last one, never after the last.
C26_BoundedRetriesThenReturn ==
    /\ []HtmlSafety
    /\ [](http.pc \in {"loop", "sleep"} => <>(http.pc = "returned"))

\* A call with the default number of retries has failed three times, slept
\* twice and returned None.
C26_Witness ==
    /\ http.pc = "returned"
    /\ http.retries = DEFAULT_RETRIES
    /\ http.ret = None
    /\ Len(http.log) = DEFAULT_RETRIES
    /\ http.sleeps = DEFAULT_RETRIES - 1

\* A call has returned the content of its second request.
C26_WitnessSuccess ==
    /\ http.pc = "returned"
    /\ http.ret = HtmlContent
    /\ http.log = <<"RequestException", "ok">>
    /\ http.sleeps = 1

\* Every stored close of the benchmark is the same: each of its daily
\* returns is zero, in whatever order they are taken, and so is their variance.
FlatBenchmark(market) ==
    \A b, c \in market : b.symbol = "^NSEI" /\ c.symbol = "^NSEI" => b.close = c.close

\* C27: when the variance of the benchmark returns is zero, the beta of every
\* row is undefined (NaN, not zero, and the run does not raise), and the
\* benchmark's own beta is 1, flat or not.
C27_ZeroVarianceBetaUndefined ==
    grun.result # "none" =>
       /\ grun.result # "raised"
       /\ calculate_beta(bars, "^NSEI") = Num(1)
       /\ \A r \in grun.records \cup insights :
             FlatBenchmark(bars) => IsNaN(r.beta) /\ r.beta # Num(0)

\* A run has stored its records over a flat benchmark with more than ten
\* paired returns, returned in ascending order.
C27_Witness ==
    /\ grun.result = "stored"
    /\ FlatBenchmark(bars)
    /\ \A b \in bars : b.symbol = "^NSEI" => b.id = b.date.day
    /\ Cardinality(PairedReturnDates(bars, "^NSEBANK")) > MIN_BETA_POINTS
    /\ \E r \in insights : r.symbol = "^NSEBANK" /\ IsNaN(r.beta)

-----------------------------------------------------------------------------
(* The analytics run over a rising and a falling price history *)

\* The closes of a history that rises at its end: flat to day 40, doubled to
\* day 49, doubled again on day 50.
RisingClose(d) == IF d <= 40 THEN 100 ELSE IF d < 50 THEN 200 ELSE 400

TrendQuote(d, rising) ==
    IF rising
    THEN [open |-> RisingClose(d), high |-> RisingClose(d), low |-> RisingClose(d),
          close |-> RisingClose(d), volume |-> 1000]
    ELSE HistoryQuote(d)

\* SMA_LONG days of the benchmark, then as many of the Banking index, with
\* the same closes.
TrendBars(rising) ==
    [i \in 1..(2 * SMA_LONG) |->
        IF i <= SMA_LONG THEN MarketRecord("^NSEI", i, TrendQuote(i, rising))
        ELSE MarketRecord("^NSEBANK", i - SMA_LONG, TrendQuote(i - SMA_LONG, rising))]

InitTrend ==
    /\ \E rising \in BOOLEAN : bars = InsertedBars(TrendBars(rising))
    /\ \E days \in {1..SMA_LONG, (1..SMA_LONG) \ {2}}, score \in {20, 80} :
          articles = HistoryNews(days, score)
    /\ insights = {}
    /\ last = NoOp
    /\ wpc = [w \in Writers |-> "idle"]
    /\ wreq = [w \in Writers |-> NoRequest]
    /\ wret = [w \in Writers |-> NoReturn]
    /\ gpc = "idle"
    /\ grun = NoRun
    /\ observed = NoObservation
    /\ today = StartDay
    /\ fetch = NoFetch
    /\ sig = NoSignal
    /\ pipe = NoPipeline
    /\ http = NoHttp

SpecTrend == InitTrend /\ [][IndicatorsNext]_vars

\* C28: no insight row with a positive close and a positive sma_50 is Buy:
\* the row's price_to_sma_50_ratio is its close over its sma_50, which is
\* above 1 whenever close > sma_20 > sma_50; the Insight Store holds Sell and
\* Neutral signals only.
C28_NoBuyInInsightStore ==
    \A r \in grun.records \cup insights :
       /\ (r.close > 0 /\ Gt(r.sma_50, Num(0))) => r.signal # "Buy"
       /\ (Gt(Num(r.close), r.sma_20) /\ Gt(r.sma_20, r.sma_50) /\ Gt(r.sma_50, Num(0)))
             => Gt(r.price_to_sma_50_ratio, Num(1))
       /\ r.signal \in {"Sell", "Neutral"}

\* The store holds a row in a bullish trend, well scored and of beta 1, that
\* is Neutral, and a Sell row is possible in another run.
C28_Witness ==
    \E r \in insights :
       /\ Gt(Num(r.close), r.sma_20) /\ Gt(r.sma_20, r.sma_50) /\ Gt(r.sma_50, Num(0))
       /\ Gt(r.avg_sentiment, Frac(65, 100))
       /\ r.beta = Num(1)
       /\ r.signal = "Neutral"

-----------------------------------------------------------------------------
(* insert_article_into_mongodb called with any payload *)

\* The payloads of the adapters, and the same payloads with a title of None:
\* insert_article_into_mongodb reads the title with article_data.get('title')
\* and does not require one.
DirectPayloads == AdapterPayloads \cup {[p EXCEPT !.title = None] : p \in AdapterPayloads}

InsertNext ==
    \E p \in DirectPayloads :
       /\ InsertArticle(p)
       /\ Record("insert_article", p, UpsertArticleResult(articles, p).ret,
                 articles' # articles, last.op = "insert_article" /\ last.req = p)

SpecInsert == Init /\ [][InsertNext]_vars

\* C29: insert_article_into_mongodb returns True exactly when the call
\* changed the store (a document inserted or modified) and False exactly when
\* the store is unchanged; it never returns False after inserting a document.
C29_ReturnsTrueIffStoreChanged ==
    last.op = "insert_article" => (last.ret <=> last.changed)

\* What the code does keep: a call that returns True has changed the store,
\* and a call whose payload has a title returns True exactly when it did.
InsertTrueOnlyAfterChange ==
    last.op = "insert_article" =>
       /\ last.ret => last.changed
       /\ last.req.title # None => (last.ret <=> last.changed)

-----------------------------------------------------------------------------
(* News fetch runs against an upstream that holds more than one run stores *)

\* The articles the upstream publishes on one day.
PerDay == 11

\* The j-th article the upstream published on day d.
UpstreamItem(d, j) ==
    [url |-> ToString(100 * d + j), title |-> "T1", description |-> C_BANK,
     published_at |-> IsoTimestamp(d)]

\* The first n articles of day d, the newest first.
DayItems(d, n) == [i \in 1..n |-> UpstreamItem(d, n - i + 1)]

RECURSIVE EarlierItems(_, _)
\* Every article of the days start..d, the newest first.
EarlierItems(start, d) ==
    IF d < start \/ d < StartDay THEN <<>>
    ELSE DayItems(d, PerDay) \o EarlierItems(start, d - 1)

\* The response to a request with 'sort': 'published_desc' and
\* 'published_after': start (lines 465-471), when m articles of the current
\* day are out: the articles from day start on, the newest first.
MarketauxWindow(start, now, m) ==
    IF now < start THEN <<>> ELSE DayItems(now, m) \o EarlierItems(start, now - 1)

\* The publication days of the items of a response that the store does not hold.
UnstoredDays(coll, window) ==
    {window[i].published_at.day :
        i \in {k \in 1..Len(window) : MatchUrl(coll, window[k].url) = {}}}

\* One run of fetch_news_from_marketaux against this upstream.
FetchMarketauxWindow ==
    \E m \in 0..PerDay :
        LET plan == PlanNewsFetch(get_latest_news_date(articles, "Marketaux"), today)
            window == MarketauxWindow(plan.start, today, m)
            result == fetch_news_from_marketaux(articles, today, Response(window))
        IN /\ articles' = result.coll
           /\ fetch' = [fetcher |-> "Marketaux", key |-> "Marketaux",
                        dated |-> StoredNewsDays(articles, "Marketaux"),
                        start |-> result.start, sent |-> result.sent, written |-> {},
                        window |-> IF result.sent THEN Len(window) ELSE 0,
                        unstored |-> IF result.sent THEN UnstoredDays(result.coll, window)
                                     ELSE {}]
           /\ UNCHANGED <<bars, last, raceVars, runVars, today, auxVars>>

NewsNext == FetchMarketauxWindow \/ Tick

SpecNews == Init /\ [][NewsNext]_vars

\* C30: after a news fetch run that stored only some articles of its window
\* (it stopped at num_articles_limit), the watermark the next run reads, the
\* latest stored publication_date of the source, is not later than the date
\* of any article of the window that was left unstored, so that no newer
\* upstream article is skipped for good.
C30_WatermarkNotPastUnstored ==
    (fetch.fetcher = "Marketaux" /\ fetch.sent) =>
        \A d \in fetch.unstored : get_latest_news_date(articles, "Marketaux").day <= d

\* An upstream article older than the watermark that the store does not hold
\* is not stored by any later run.
SkippedStaysSkipped ==
    [][\A d \in StartDay..today, j \in 1..PerDay :
          (/\ d < get_latest_news_date(articles, "Marketaux").day
           /\ MatchUrl(articles, UpstreamItem(d, j).url) = {})
             => MatchUrl(articles', UpstreamItem(d, j).url) = {}]_vars

\* A run has stopped at the limit and left an article of an earlier day out.
StoppedAtLimitWithOlderLeft ==
    /\ fetch.fetcher = "Marketaux" /\ fetch.sent
    /\ fetch.window > NEWS_LIMIT
    /\ Cardinality({x \in articles : x.source = "Marketaux"}) = NEWS_LIMIT
    /\ \E d \in fetch.unstored : d < get_latest_news_date(articles, "Marketaux").day

=============================================================================
